---------------------------- MODULE Spec2Model ----------------------------
(***************************************************************************)
(* Model of the freebsd-csi e2e tooling:                                   *)
(*   - ResourceTracker (src/e2e-tests/lib/resource_tracker.py) driving     *)
(*     K8sClient.delete (src/e2e-tests/lib/k8s_client.py);                 *)
(*   - the orphan reconciler (src/scripts/reconcile.py) driving            *)
(*     AgentClient (src/e2e-tests/lib/agent_client.py).                    *)
(*   - StorageMonitor (src/e2e-tests/lib/storage_monitor.py) and the size  *)
(*     parser of K8sClient;                                                *)
(*   - the UCL config helper of ctld-agent                                 *)
(*     (src/ctld-agent/scripts/ctl-config-helper.py).                      *)
(* Each subsystem has its own specification over the shared variables:     *)
(* Spec (the tracker), ConcurrentSpec (the tracker used by two threads),   *)
(* ReconcileSpec (the reconcile CLI), RaceSpec (the CLI next to a          *)
(* provisioner), ConfigSpec (ctld configuration parsing), SizeSpec (the    *)
(* size parsers), DiffSpec (diff_state), BuilderSpec (the inventory        *)
(* builders), CaptureSpec (capture_state), CleanupVolumeSpec               *)
(* (cleanup_volume), HelperSpec (two helper processes) and SyncSpec (one   *)
(* sync invocation).                                                       *)
(***************************************************************************)
EXTENDS Integers, Sequences, FiniteSets, TLC

VARIABLES
    \* ---- ResourceTracker ----
    resources,          \* ResourceTracker.resources: list[TrackedResource]
    pc,                 \* "idle" | "sweep" (inside cleanup_all) | "raised"
    sorted_resources,   \* cleanup_all local: sorted(enumerate(resources))
    pos,                \* cleanup_all loop position in sorted_resources (1-based)
    warnings,           \* cleanup_all local: warnings collected so far
    returned,           \* value returned by the last cleanup_all
    calls,              \* k8s.delete calls issued by the operation in progress / just done
    fresh,              \* a cleanup_all has returned and no track* was called since
    startedFresh,       \* the current / last cleanup_all was entered with fresh = TRUE
    dropped,            \* entries the last operation removed from the tracker without a delete
    \* ---- reconcile.py ----
    backend,            \* ctld-agent volume table (list_volumes order)
    pvs,                \* PersistentVolume names known to Kubernetes
    delete_flag,        \* args.delete
    rpc,                \* position of main()
    k8s_pvs,            \* main local: result of get_kubernetes_pvs
    agent_volumes,      \* main local: result of get_agent_volumes
    orphans,            \* main local: result of find_orphans
    dpos,               \* delete_orphans loop position in orphans (1-based)
    deleted,            \* delete_orphans local counter / return value
    delete_calls,       \* AgentClient.delete_volume calls of this run
    clients,            \* AgentClient objects whose channel was opened by delete_orphans
    exit_code,          \* status handed to sys.exit; -1 while running
    runs,               \* number of completed runs of the CLI
    \* ---- StorageMonitor: ctld configuration parsing ----
    ctld_config,        \* text of the ctld UCL file, a sequence of lexemes
    auth_groups,        \* result of the last list_auth_groups
    iscsi_targets,      \* result of the last list_iscsi_targets
    bodies,             \* block bodies extracted by the last list_* call
    \* ---- the size parsers ----
    size_str,           \* argument of _parse_size, a sequence of characters
    size_call,          \* the last _parse_size call: whose, raised?, value
    \* ---- StorageMonitor.diff_state ----
    before,             \* argument of diff_state: StorageState
    after,              \* argument of diff_state: StorageState
    diff_call,          \* the last diff_state call: done?, the dict it returned
    \* ---- StorageMonitor inventory ----
    zfs_out,            \* stdout of `zfs list -H -p -o name,type,...`
    snap_out,           \* stdout of `zfs list -H -p -t snapshot -o ...`
    ctl_out,            \* stdout of `ctladm devlist -x`
    ports_out,          \* stdout of `ctladm portlist -v`
    inv_call,           \* the last builder / capture_state call and its result
    \* ---- StorageMonitor.cleanup_volume ----
    cv_call,            \* the last cleanup_volume call and its outcome
    \* ---- ctl-config-helper.py ----
    cfg_file,           \* the UCL file at CONFIG_PATH: exists?, the config it holds
    cfg_file0,          \* the file before the first invocation
    lock_holders,       \* the processes holding the lock file LOCK_PATH
    helper,             \* per process: position in main(), args, locals, exit status
    invocations         \* number of invocations started

trackerVars == <<resources, pc, sorted_resources, pos, warnings, returned,
                 calls, fresh, startedFresh, dropped>>
reconcileVars == <<backend, pvs, delete_flag, rpc, k8s_pvs, agent_volumes,
                   orphans, dpos, deleted, delete_calls, clients, exit_code, runs>>
configVars == <<ctld_config, auth_groups, iscsi_targets, bodies>>
sizeVars == <<size_str, size_call>>
diffVars == <<before, after, diff_call>>
inventoryVars == <<zfs_out, snap_out, ctl_out, ports_out, inv_call>>
monitorVars == <<configVars, sizeVars, diffVars, inventoryVars>>
cleanupVars == <<cv_call>>
helperVars == <<cfg_file, cfg_file0, lock_holders, helper, invocations>>
toolVars == <<cleanupVars, helperVars>>
vars == <<trackerVars, reconcileVars, monitorVars, toolVars>>

None == "None"

(***************************************************************************)
(* Bounds of the model.                                                    *)
(***************************************************************************)
MaxTracked == 2
Names == {"a", "b"}

(***************************************************************************)
(* ResourceType (IntEnum): lower = cleaned up first.                       *)
(***************************************************************************)
POD == 1
CLONE_PVC == 2
SNAPSHOT == 3
SOURCE_PVC == 4
SECRET == 5

TrackedResource(kind, name, resource_type, depends_on) ==
    [kind |-> kind, name |-> name, resource_type |-> resource_type,
     depends_on |-> depends_on]

(***************************************************************************)
(* K8sClient.delete.  kubectl's behaviour is the environment: it exits 0   *)
(* (deleted, or absent under --ignore-not-found=true), exits non-zero with *)
(* "not found" in stderr, exits non-zero otherwise, or runs past the       *)
(* subprocess timeout (timeout + 10 s).                                    *)
(***************************************************************************)
KubectlResults == {"rc0", "rc_notfound", "rc_error", "timeout"}

\* _kubectl: subprocess.run(timeout=...) raises TimeoutExpired; check=True
\* turns a non-zero exit into CalledProcessError.
Kubectl(result) ==
    CASE result = "rc0" -> [raised |-> FALSE, exc |-> None, stderr_not_found |-> FALSE]
      [] result = "timeout" -> [raised |-> TRUE, exc |-> "TimeoutExpired", stderr_not_found |-> FALSE]
      [] result = "rc_notfound" -> [raised |-> TRUE, exc |-> "CalledProcessError", stderr_not_found |-> TRUE]
      [] OTHER -> [raised |-> TRUE, exc |-> "CalledProcessError", stderr_not_found |-> FALSE]

K8sDelete(result, ignore_not_found) ==
    LET r == Kubectl(result) IN
    IF ~r.raised THEN [raised |-> FALSE, exc |-> None, ret |-> TRUE]
    ELSE IF r.exc = "CalledProcessError" /\ ignore_not_found /\ r.stderr_not_found
         THEN [raised |-> FALSE, exc |-> None, ret |-> FALSE]
         ELSE [raised |-> TRUE, exc |-> r.exc, ret |-> FALSE]

\* `except Exception`: both subprocess exceptions derive from Exception.
CaughtOnlyCalledProcessError(exc) == exc = "CalledProcessError"
CaughtByExceptException(exc) == exc \in {"CalledProcessError", "TimeoutExpired"}

(***************************************************************************)
(* cleanup_all's sort: sorted(enumerate(resources),                        *)
(*                            key=lambda x: (x[1].resource_type, -x[0])).  *)
(***************************************************************************)
Enumerate(s) == [i \in 1..Len(s) |-> [idx |-> i - 1, res |-> s[i]]]

SortKeyFifo(x) == <<x.res.resource_type, x.idx>>
SortKeyDependentsFirst(x) ==
    <<x.res.resource_type, IF x.res.depends_on = None THEN 1 ELSE 0>>
SortKeyIndexOnly(x) == <<0, -x.idx>>
SortKey(x) == <<x.res.resource_type, -x.idx>>

\* Python tuple comparison k1 <= k2 on pairs of integers.
TupleLE(k1, k2) == k1[1] < k2[1] \/ (k1[1] = k2[1] /\ k1[2] <= k2[2])

RECURSIVE InsertSorted(_, _)
InsertSorted(x, s) ==
    IF s = <<>> THEN <<x>>
    ELSE IF TupleLE(SortKey(Head(s)), SortKey(x))
         THEN <<Head(s)>> \o InsertSorted(x, Tail(s))
         ELSE <<x>> \o s

RECURSIVE Sorted(_)
Sorted(s) == IF s = <<>> THEN <<>>
             ELSE InsertSorted(s[Len(s)], Sorted(SubSeq(s, 1, Len(s) - 1)))

(***************************************************************************)
(* Initial state: a freshly constructed tracker, and the reconcile CLI     *)
(* not started.                                                            *)
(***************************************************************************)
TrackerInit ==
    /\ resources = <<>>
    /\ pc = "idle"
    /\ sorted_resources = <<>>
    /\ pos = 1
    /\ warnings = <<>>
    /\ returned = <<>>
    /\ calls = <<>>
    /\ fresh = FALSE
    /\ startedFresh = FALSE
    /\ dropped = 0

ReconcileIdle ==
    /\ backend = <<>>
    /\ pvs = {}
    /\ delete_flag = FALSE
    /\ rpc = "off"
    /\ k8s_pvs = {}
    /\ agent_volumes = <<>>
    /\ orphans = <<>>
    /\ dpos = 1
    /\ deleted = 0
    /\ delete_calls = <<>>
    /\ clients = 0
    /\ exit_code = -1
    /\ runs = 0

\* The StorageMonitor is not used: no configuration text, nothing parsed.
ConfigIdle ==
    /\ ctld_config = <<>>
    /\ auth_groups = <<>>
    /\ iscsi_targets = <<>>
    /\ bodies = <<>>

\* No size has been parsed.
SizeIdle ==
    /\ size_str = <<>>
    /\ size_call = [fn |-> None, raised |-> FALSE, value |-> 0]

\* StorageState (dataclass).
StorageState(datasets, snapshots, luns, ports, config) ==
    [datasets |-> datasets, snapshots |-> snapshots, luns |-> luns,
     ports |-> ports, ctld_config |-> config]
EmptyState == StorageState(<<>>, <<>>, <<>>, <<>>, <<>>)
EmptyDiff ==
    [datasets |-> [added |-> <<>>, removed |-> <<>>],
     snapshots |-> [added |-> <<>>, removed |-> <<>>],
     luns |-> [added |-> <<>>, removed |-> <<>>],
     config_changed |-> FALSE]

\* No state has been compared.
DiffIdle ==
    /\ before = EmptyState
    /\ after = EmptyState
    /\ diff_call = [done |-> FALSE, result |-> EmptyDiff]

\* No inventory command has been run.
NoOutcomes ==
    [datasets |-> "unused", snapshots |-> "unused", luns |-> "unused",
     ports |-> "unused", config |-> "unused"]
NoCall == [fn |-> None, outcomes |-> NoOutcomes, raised |-> FALSE, result |-> <<>>]
InventoryIdle ==
    /\ zfs_out = <<>>
    /\ snap_out = <<>>
    /\ ctl_out = [parses |-> TRUE, luns |-> <<>>]
    /\ ports_out = <<>>
    /\ inv_call = NoCall

MonitorIdle == ConfigIdle /\ SizeIdle /\ DiffIdle /\ InventoryIdle

\* cleanup_volume has not been called.
NoCleanup == [done |-> FALSE, volume_id |-> None, result |-> None,
              raised |-> FALSE, ret |-> FALSE]
CleanupIdle == cv_call = NoCleanup

\* A UCL config as ucl.load returns it: a dict whose "target" and
\* "controller" keys, when present, hold a dict from names to entries.
NoEntries == [n \in {} |-> 0]
Section(present, entries) == [present |-> present, entries |-> entries]
EmptyConfig == [target |-> Section(FALSE, NoEntries),
                controller |-> Section(FALSE, NoEntries)]
MissingFile == [exists |-> FALSE, config |-> EmptyConfig]
NoArgs == [command |-> None, name |-> <<>>, id |-> 0, exports |-> <<>>,
           json_ok |-> TRUE]
Procs == {1, 2}
\* A helper process that is not running.
NotRunning == [pc |-> "idle", args |-> NoArgs, config |-> EmptyConfig,
               seen |-> MissingFile, loaded |-> FALSE, status |-> -1,
               wrote |-> FALSE, output |-> {}]
HelperIdle ==
    /\ cfg_file = MissingFile
    /\ cfg_file0 = MissingFile
    /\ lock_holders = {}
    /\ helper = [p \in Procs |-> NotRunning]
    /\ invocations = 0

ToolIdle == CleanupIdle /\ HelperIdle

Init == TrackerInit /\ ReconcileIdle /\ MonitorIdle /\ ToolIdle

(***************************************************************************)
(* track_pod / track_pvc / track_snapshot / track_secret: append.          *)
(***************************************************************************)
ListOverwrite(r) == resources' = <<r>>
ListAppend(r) == resources' = Append(resources, r)

Track(r) ==
    /\ pc = "idle"
    /\ Len(resources) < MaxTracked
    /\ ListAppend(r)
    /\ fresh' = FALSE
    /\ calls' = <<>>
    /\ returned' = <<>>
    /\ dropped' = 0
    /\ UNCHANGED <<pc, sorted_resources, pos, warnings, startedFresh>>
    /\ UNCHANGED <<reconcileVars, monitorVars, toolVars>>

TrackPod(name) == Track(TrackedResource("pod", name, POD, None))

TrackPvc(name, is_clone, depends_on) ==
    Track(TrackedResource("pvc", name,
                          IF is_clone THEN CLONE_PVC ELSE SOURCE_PVC,
                          depends_on))

TrackSnapshot(name, source_pvc) ==
    Track(TrackedResource("volumesnapshot", name, SNAPSHOT, source_pvc))

TrackSecret(name) == Track(TrackedResource("secret", name, SECRET, None))

(***************************************************************************)
(* cleanup_all, one step per statement group: the sort, one loop           *)
(* iteration per step, then clear + return.                                *)
(***************************************************************************)
CleanupBegin ==
    /\ pc = "idle"
    /\ pc' = "sweep"
    /\ warnings' = <<>>
    /\ sorted_resources' = Sorted(Enumerate(resources))
    /\ pos' = 1
    /\ calls' = <<>>
    /\ returned' = <<>>
    /\ startedFresh' = fresh
    /\ dropped' = 0
    /\ UNCHANGED <<resources, fresh>>
    /\ UNCHANGED <<reconcileVars, monitorVars, toolVars>>

\* Where the loop goes after an iteration that did not raise out of it.
NextPosBreakOnFailure(failed) == IF failed THEN Len(sorted_resources) + 1 ELSE pos + 1
NextPos(failed) == pos + 1

CleanupDelete(result) ==
    /\ pc = "sweep"
    /\ pos <= Len(sorted_resources)
    /\ LET resource == sorted_resources[pos].res
           r == K8sDelete(result, TRUE)
       IN /\ calls' = Append(calls, [kind |-> resource.kind, name |-> resource.name,
                                     wait |-> TRUE, ignore_not_found |-> TRUE,
                                     entry |-> sorted_resources[pos].idx,
                                     result |-> result])
          /\ IF r.raised /\ ~CaughtByExceptException(r.exc)
             THEN /\ pc' = "raised"
                  /\ UNCHANGED <<warnings, pos>>
             ELSE /\ pc' = pc
                  /\ pos' = NextPos(r.raised)
                  /\ warnings' = IF r.raised
                                 THEN Append(warnings, [kind |-> resource.kind,
                                                        name |-> resource.name,
                                                        e |-> r.exc])
                                 ELSE warnings
    /\ UNCHANGED <<resources, sorted_resources, returned, fresh, startedFresh, dropped>>
    /\ UNCHANGED <<reconcileVars, monitorVars, toolVars>>

ClearKeeping == resources' = resources
ClearList == resources' = <<>>

CleanupReturn ==
    /\ pc = "sweep"
    /\ pos > Len(sorted_resources)
    /\ ClearList
    /\ returned' = warnings
    /\ pc' = "idle"
    /\ fresh' = TRUE
    /\ sorted_resources' = <<>>
    /\ pos' = 1
    /\ warnings' = <<>>
    /\ UNCHANGED <<calls, startedFresh, dropped>>
    /\ UNCHANGED <<reconcileVars, monitorVars, toolVars>>

\* clear(): "Clear all tracked resources without deleting them."
Clear ==
    /\ pc = "idle"
    /\ resources' = <<>>
    /\ dropped' = Len(resources)
    /\ calls' = <<>>
    /\ returned' = <<>>
    /\ UNCHANGED <<pc, sorted_resources, pos, warnings, fresh, startedFresh>>
    /\ UNCHANGED <<reconcileVars, monitorVars, toolVars>>

DependsOn == Names \cup {None}

Next ==
    \/ \E n \in Names : TrackPod(n)
    \/ \E n \in Names, c \in BOOLEAN, d \in DependsOn : TrackPvc(n, c, d)
    \/ \E n \in Names, d \in DependsOn : TrackSnapshot(n, d)
    \/ \E n \in Names : TrackSecret(n)
    \/ CleanupBegin
    \/ \E result \in KubectlResults : CleanupDelete(result)
    \/ CleanupReturn
    \/ Clear

Spec == Init /\ [][Next]_vars

\* A track* call made by another thread while cleanup_all is between its
\* sort and its clear: the append lands in self.resources, the sorted copy
\* the loop walks is not touched.
TrackDuringSweep(r) ==
    /\ pc = "sweep"
    /\ Len(resources) < MaxTracked
    /\ ListAppend(r)
    /\ fresh' = FALSE
    /\ UNCHANGED <<pc, sorted_resources, pos, warnings, returned, calls,
                   startedFresh, dropped>>
    /\ UNCHANGED <<reconcileVars, monitorVars, toolVars>>

ConcurrentNext ==
    \/ Next
    \/ \E n \in Names : TrackDuringSweep(TrackedResource("pod", n, POD, None))
    \/ \E n \in Names, c \in BOOLEAN, d \in DependsOn :
          TrackDuringSweep(TrackedResource("pvc", n,
                                           IF c THEN CLONE_PVC ELSE SOURCE_PVC, d))
    \/ \E n \in Names, d \in DependsOn :
          TrackDuringSweep(TrackedResource("volumesnapshot", n, SNAPSHOT, d))
    \/ \E n \in Names : TrackDuringSweep(TrackedResource("secret", n, SECRET, None))

ConcurrentSpec == Init /\ [][ConcurrentNext]_vars


(***************************************************************************)
(* reconcile.py: the orphan reconciler CLI.                                *)
(***************************************************************************)
MaxVols == 2
MaxRuns == 2
VolIds == {"pvc-1", "pvc-2", "pvc-3"}
Targets == {"iqn-x", "iqn-y"}
Volumes == [id : VolIds, target_name : Targets]

\* The agent's volume table: at most MaxVols volumes, ids distinct.
VolumeTables ==
    {t \in UNION {[1..k -> Volumes] : k \in 0..MaxVols} :
        \A i, j \in 1..Len(t) : t[i].id = t[j].id => i = j}

IdsOf(t) == {t[i].id : i \in 1..Len(t)}

\* find_orphans: the test `vol["id"] not in k8s_pvs`.
NotInPvsByTarget(vol, pv_names) == vol.target_name \notin pv_names
NotInPvs(vol, pv_names) == vol.id \notin pv_names

\* find_orphans: loop over agent_volumes appending the volumes that pass.
RECURSIVE find_orphans(_, _)
find_orphans(vols, pv_names) ==
    IF vols = <<>> THEN <<>>
    ELSE LET rest == find_orphans(SubSeq(vols, 1, Len(vols) - 1), pv_names)
             vol == vols[Len(vols)]
         IN IF NotInPvs(vol, pv_names) THEN Append(rest, vol) ELSE rest

\* AgentClient.delete_volume against the agent: the RPC succeeds, answers
\* NOT_FOUND, or fails with another RpcError.
RpcResults(volume_id) ==
    IF volume_id \in IdsOf(backend) THEN {"ok", "error"} ELSE {"not_found", "error"}

AgentDeleteVolume(result) ==
    CASE result = "ok" -> [raised |-> FALSE, ret |-> TRUE]
      [] result = "not_found" -> [raised |-> FALSE, ret |-> FALSE]
      [] OTHER -> [raised |-> TRUE, ret |-> FALSE]

RemoveVolume(t, volume_id) == SelectSeq(t, LAMBDA v : v.id # volume_id)

\* main: delete_orphans(..., dry_run=False) under `if args.delete`, else
\* delete_orphans(..., dry_run=True).
DryRunArg(delete) == ~delete

\* delete_orphans: `if dry_run:`.
TakesDryRunBranchNever(dry_run) == FALSE
TakesDryRunBranch(dry_run) == dry_run

\* main: `return 0 if args.delete else 1`.
ExitStatusReportOnly(delete) == 1
ExitStatus(delete) == IF delete THEN 0 ELSE 1

\* delete_orphans loop body: `if client.delete_volume(volume_id): deleted += 1`,
\* the False return and the `except Exception` branch leave the counter alone.
CountDeletedEveryReturn(count, r) == IF ~r.raised THEN count + 1 ELSE count
CountDeleted(count, r) == IF ~r.raised /\ r.ret THEN count + 1 ELSE count

ReconcileInit ==
    /\ TrackerInit
    /\ ToolIdle
    /\ MonitorIdle
    /\ backend \in VolumeTables
    /\ pvs \in SUBSET VolIds
    /\ delete_flag \in BOOLEAN
    /\ rpc = "start"
    /\ k8s_pvs = {}
    /\ agent_volumes = <<>>
    /\ orphans = <<>>
    /\ dpos = 1
    /\ deleted = 0
    /\ delete_calls = <<>>
    /\ clients = 0
    /\ exit_code = -1
    /\ runs = 0

\* get_kubernetes_pvs: the PV names, or sys.exit(1) when kubectl fails or
\* prints no JSON.
FetchPvs(ok) ==
    /\ rpc = "start"
    /\ IF ok THEN /\ k8s_pvs' = pvs
                  /\ rpc' = "pvs"
                  /\ UNCHANGED <<exit_code, runs>>
             ELSE /\ rpc' = "exited"
                  /\ exit_code' = 1
                  /\ runs' = runs + 1
                  /\ UNCHANGED k8s_pvs
    /\ UNCHANGED <<backend, pvs, delete_flag, agent_volumes, orphans, dpos,
                   deleted, delete_calls, clients>>
    /\ UNCHANGED <<trackerVars, monitorVars, toolVars>>

\* get_agent_volumes: list_volumes over a channel of its own, or sys.exit(1).
FetchVolumes(ok) ==
    /\ rpc = "pvs"
    /\ clients' = clients + 1
    /\ IF ok THEN /\ agent_volumes' = backend
                  /\ rpc' = "vols"
                  /\ UNCHANGED <<exit_code, runs>>
             ELSE /\ rpc' = "exited"
                  /\ exit_code' = 1
                  /\ runs' = runs + 1
                  /\ UNCHANGED agent_volumes
    /\ UNCHANGED <<backend, pvs, delete_flag, k8s_pvs, orphans, dpos,
                   deleted, delete_calls>>
    /\ UNCHANGED <<trackerVars, monitorVars, toolVars>>

\* main: orphans = find_orphans(agent_volumes, k8s_pvs).
FindOrphans ==
    /\ rpc = "vols"
    /\ orphans' = find_orphans(agent_volumes, k8s_pvs)
    /\ rpc' = "found"
    /\ UNCHANGED <<backend, pvs, delete_flag, k8s_pvs, agent_volumes, dpos,
                   deleted, delete_calls, clients, exit_code, runs>>
    /\ UNCHANGED <<trackerVars, monitorVars, toolVars>>

\* main: `if not orphans: return 0`.
ReturnSynchronized ==
    /\ rpc = "found"
    /\ orphans = <<>>
    /\ exit_code' = 0
    /\ rpc' = "done"
    /\ runs' = runs + 1
    /\ UNCHANGED <<backend, pvs, delete_flag, k8s_pvs, agent_volumes, orphans,
                   dpos, deleted, delete_calls, clients>>
    /\ UNCHANGED <<trackerVars, monitorVars, toolVars>>

\* delete_orphans(dry_run=True): print and return len(orphans).
DeleteOrphansDryRun ==
    /\ rpc = "found"
    /\ orphans # <<>>
    /\ TakesDryRunBranch(DryRunArg(delete_flag))
    /\ deleted' = Len(orphans)
    /\ rpc' = "swept"
    /\ UNCHANGED <<backend, pvs, delete_flag, k8s_pvs, agent_volumes, orphans,
                   dpos, delete_calls, clients, exit_code, runs>>
    /\ UNCHANGED <<trackerVars, monitorVars, toolVars>>

\* delete_orphans(dry_run=False): deleted = 0; with AgentClient(...) as client.
DeleteOrphansBegin ==
    /\ rpc = "found"
    /\ orphans # <<>>
    /\ ~TakesDryRunBranch(DryRunArg(delete_flag))
    /\ deleted' = 0
    /\ dpos' = 1
    /\ rpc' = "deleting"
    /\ UNCHANGED <<backend, pvs, delete_flag, k8s_pvs, agent_volumes, orphans,
                   delete_calls, clients, exit_code, runs>>
    /\ UNCHANGED <<trackerVars, monitorVars, toolVars>>

\* One iteration of the delete loop; the first delete_volume opens the channel.
DeleteOne(result) ==
    /\ rpc = "deleting"
    /\ dpos <= Len(orphans)
    /\ LET volume_id == orphans[dpos].id
           r == AgentDeleteVolume(result)
       IN /\ result \in RpcResults(volume_id)
          /\ delete_calls' = Append(delete_calls, [volume_id |-> volume_id, result |-> result])
          /\ backend' = IF result = "ok" THEN RemoveVolume(backend, volume_id) ELSE backend
          /\ deleted' = CountDeleted(deleted, r)
    /\ clients' = IF dpos = 1 THEN clients + 1 ELSE clients
    /\ dpos' = dpos + 1
    /\ UNCHANGED <<pvs, delete_flag, rpc, k8s_pvs, agent_volumes, orphans,
                   exit_code, runs>>
    /\ UNCHANGED <<trackerVars, monitorVars, toolVars>>

\* End of the loop: the with block closes the client, `return deleted`.
DeleteOrphansEnd ==
    /\ rpc = "deleting"
    /\ dpos > Len(orphans)
    /\ rpc' = "swept"
    /\ UNCHANGED <<backend, pvs, delete_flag, k8s_pvs, agent_volumes, orphans,
                   dpos, deleted, delete_calls, clients, exit_code, runs>>
    /\ UNCHANGED <<trackerVars, monitorVars, toolVars>>

\* main: `return 0 if args.delete else 1`.
MainReturn ==
    /\ rpc = "swept"
    /\ exit_code' = ExitStatus(delete_flag)
    /\ rpc' = "done"
    /\ runs' = runs + 1
    /\ UNCHANGED <<backend, pvs, delete_flag, k8s_pvs, agent_volumes, orphans,
                   dpos, deleted, delete_calls, clients>>
    /\ UNCHANGED <<trackerVars, monitorVars, toolVars>>

\* The CLI is started again (a periodic health check), with new arguments.
Rerun(delete) ==
    /\ rpc \in {"done", "exited"}
    /\ runs < MaxRuns
    /\ delete_flag' = delete
    /\ rpc' = "start"
    /\ k8s_pvs' = {}
    /\ agent_volumes' = <<>>
    /\ orphans' = <<>>
    /\ dpos' = 1
    /\ deleted' = 0
    /\ delete_calls' = <<>>
    /\ clients' = 0
    /\ exit_code' = -1
    /\ UNCHANGED <<backend, pvs, runs>>
    /\ UNCHANGED <<trackerVars, monitorVars, toolVars>>

\* Environment: another actor removes a backend volume after the script
\* listed the volumes (the NOT_FOUND case of delete_volume).
VolumeVanishes(volume_id) ==
    /\ rpc \in {"found", "deleting"}
    /\ volume_id \in IdsOf(backend)
    /\ backend' = RemoveVolume(backend, volume_id)
    /\ UNCHANGED <<pvs, delete_flag, rpc, k8s_pvs, agent_volumes, orphans, dpos,
                   deleted, delete_calls, clients, exit_code, runs>>
    /\ UNCHANGED <<trackerVars, monitorVars, toolVars>>

ReconcileNext ==
    \/ \E ok \in BOOLEAN : FetchPvs(ok)
    \/ \E ok \in BOOLEAN : FetchVolumes(ok)
    \/ FindOrphans
    \/ ReturnSynchronized
    \/ DeleteOrphansDryRun
    \/ DeleteOrphansBegin
    \/ \E result \in {"ok", "not_found", "error"} : DeleteOne(result)
    \/ DeleteOrphansEnd
    \/ MainReturn
    \/ \E delete \in BOOLEAN : Rerun(delete)
    \/ \E volume_id \in VolIds : VolumeVanishes(volume_id)

ReconcileSpec == ReconcileInit /\ [][ReconcileNext]_vars

\* Environment: between the script's two fetches (get_kubernetes_pvs has
\* returned, get_agent_volumes has not been called) a provisioner creates a
\* backend volume and its PersistentVolume.
ProvisionVolume(vol) ==
    /\ rpc = "pvs"
    /\ Len(backend) < MaxVols
    /\ vol.id \notin IdsOf(backend)
    /\ vol.id \notin pvs
    /\ backend' = Append(backend, vol)
    /\ pvs' = pvs \cup {vol.id}
    /\ UNCHANGED <<delete_flag, rpc, k8s_pvs, agent_volumes, orphans, dpos,
                   deleted, delete_calls, clients, exit_code, runs>>
    /\ UNCHANGED <<trackerVars, monitorVars, toolVars>>

RaceNext ==
    \/ ReconcileNext
    \/ \E vol \in Volumes : ProvisionVolume(vol)

RaceSpec == ReconcileInit /\ [][RaceNext]_vars

(***************************************************************************)
(* StorageMonitor: parsing the ctld UCL configuration                      *)
(* (src/e2e-tests/lib/storage_monitor.py).  The text is a sequence of      *)
(* lexemes: a brace is a lexeme of its own, every other lexeme stands for  *)
(* a brace-free run of characters.  A key is the sequence of its parts,    *)
(* "mutual-user" being <<"mutual-", "user">>, so that a pattern written    *)
(* for `user` finds what the regular expression finds.                     *)
(***************************************************************************)
MaxText == 4
MaxFields == 4
MaxBody == 4

Lexeme(t, a, b) == [t |-> t, a |-> a, b |-> b]
Open == Lexeme("{", <<>>, None)
Close == Lexeme("}", <<>>, None)
ArrayEnd == Lexeme("]", <<>>, None)
\* `keyword "name" ` in front of a brace.
Header(keyword, name) == Lexeme("header", <<keyword>>, name)
\* `key [`, the start of a UCL array.
Array(key) == Lexeme("array", key, None)
\* `key = "value";`
Field(key, value) == Lexeme("field", key, value)
\* A bare word such as `portal-group` in front of a brace.
Word(key) == Lexeme("word", key, None)
\* A field whose double-quoted value holds braces is cut at them:
\* `key = "p`, the braces of the value, `q";`.
ValueStart(key, text) == Lexeme("value_start", key, text)
ValueEnd(text) == Lexeme("value_end", <<>>, text)
QuotedOpen == Lexeme("{", <<>>, "quoted")
QuotedClose == Lexeme("}", <<>>, "quoted")

DevicePaths == {"/dev/zvol/tank/csi/v1"}
\* lun_name.startswith("/dev/")
StartsWithDev(lun_name) == lun_name \in DevicePaths

ChapFields ==
    {Field(<<"user">>, "u1"), Field(<<"secret">>, "s1"),
     Field(<<"mutual-", "user">>, "u2"), Field(<<"mutual-", "secret">>, "s2")}
GenericAlphabet ==
    {Open, Close, Header("target", "iqn-x"), Header("auth-group", "ag-x"),
     Field(<<"user">>, "u1")}
TargetAlphabet ==
    {Open, Close, Word(<<"portal-group">>), Field(<<"portal-group">>, "pg0"),
     Field(<<"auth-group">>, "ag-x"), Field(<<"name">>, "pg1"),
     Field(<<"name">>, "/dev/zvol/tank/csi/v1")}

SeqsUpTo(S, n) == UNION {[1..k -> S] : k \in 0..n}

\* A block that holds a second block, or is followed by one.
Keywords == {"target", "auth-group"}
EmptyBlock(keyword, name) == <<Header(keyword, name), Open, Close>>
NestedTexts ==
    {<<Header(k1, "outer"), Open>> \o inner \o <<Close>> \o next :
        k1 \in Keywords,
        inner \in {<<>>} \cup {EmptyBlock(k2, "inner") : k2 \in Keywords},
        next \in {<<>>} \cup {EmptyBlock(k3, "next") : k3 \in Keywords}}

\* A block with a value that holds braces (a CHAP secret, an auth-group
\* name), at the end of the text or followed by a block.
QuotedBraces ==
    {<<QuotedOpen>>, <<QuotedClose>>, <<QuotedOpen, QuotedClose>>,
     <<QuotedClose, QuotedOpen>>}
QuotedTexts ==
    {<<Header("auth-group", "ag-x"), Open, Array(<<"chap">>), Open,
       Field(<<"user">>, "u1"), ValueStart(<<"secret">>, "p")>> \o qs
        \o <<ValueEnd("q"), Close, ArrayEnd, Close>> \o next :
        qs \in QuotedBraces,
        next \in {<<>>, EmptyBlock("auth-group", "next")}}
    \cup {<<Header("target", "iqn-x"), Open, ValueStart(<<"auth-group">>, "p")>>
              \o qs \o <<ValueEnd("q"), Close>> \o next :
            qs \in QuotedBraces,
            next \in {<<>>, EmptyBlock("target", "next")}}

\* The configuration texts of the model: any short text over braces and
\* headers, one auth-group with a chap / chap-mutual array of fields in any
\* order, one target with a short body, blocks inside and after a block,
\* blocks with braces in a quoted value.
ConfigTexts ==
    SeqsUpTo(GenericAlphabet, MaxText)
    \cup NestedTexts
    \cup QuotedTexts
    \cup {<<Header("auth-group", "ag-x"), Open, Array(key), Open>> \o fs
              \o <<Close, ArrayEnd, Close>> :
            key \in {<<"chap-", "mutual">>, <<"chap">>},
            fs \in SeqsUpTo(ChapFields, MaxFields)}
    \cup {<<Header("target", "iqn-x"), Open>> \o ts \o <<Close>> :
            ts \in SeqsUpTo(TargetAlphabet, MaxBody)}

\* get_ctld_config: the text; "" when the file is missing or, after a
\* PermissionError, when `sudo cat` fails.
ReadOutcomes == {"read", "not_found", "sudo_read", "sudo_failed"}
get_ctld_config(text, outcome) ==
    IF outcome \in {"read", "sudo_read"} THEN text ELSE <<>>

\* Python s[a:b] for 0 <= a.
Slice(s, a, b) == SubSeq(s, a + 1, b)

\* A pattern ends a key; (?<!behind) rejects a key with `behind` in front.
KeyEndsWith(key, pattern) ==
    /\ Len(key) >= Len(pattern)
    /\ SubSeq(key, Len(key) - Len(pattern) + 1, Len(key)) = pattern
NotPrecededBy(key, pattern, behind) ==
    \/ behind = None
    \/ Len(key) = Len(pattern)
    \/ key[Len(key) - Len(pattern)] # behind

\* The end of the quoted value that starts at i: only braces up to it.
ValueEndOf(body, i) ==
    LET ends == {j \in (i + 1)..Len(body) :
                    /\ body[j].t = "value_end"
                    /\ \A k \in (i + 1)..(j - 1) : body[k].b = "quoted"}
    IN IF ends = {} THEN 0 ELSE CHOOSE j \in ends : TRUE
\* `key\s*=\s*"([^"]+)"` needs the whole value, closing quote included.
IsA(body, i, t) ==
    \/ body[i].t = t
    \/ t = "field" /\ body[i].t = "value_start" /\ ValueEndOf(body, i) # 0
\* The characters of a value cut at its braces, put together again.
Joined(body, i) ==
    LET j == ValueEndOf(body, i)
        braces == [k \in 1..(j - i - 1) |-> body[i + k].t]
    IN CASE braces = <<"{">> -> "p{q"
         [] braces = <<"}">> -> "p}q"
         [] braces = <<"{", "}">> -> "p{}q"
         [] braces = <<"}", "{">> -> "p}{q"
         [] OTHER -> "pq"

\* re.search(pattern, body): position of the leftmost lexeme of type t whose
\* key the pattern matches, 0 when there is none.
FirstMatch(body, t, pattern, behind) ==
    LET hits == {i \in 1..Len(body) :
                    /\ IsA(body, i, t)
                    /\ KeyEndsWith(body[i].a, pattern)
                    /\ NotPrecededBy(body[i].a, pattern, behind)}
    IN IF hits = {} THEN 0 ELSE CHOOSE i \in hits : \A j \in hits : i <= j

\* match.group(1) if match else the default None.
Group1(body, match) ==
    IF match = 0 THEN None
    ELSE IF body[match].t = "value_start" THEN Joined(body, match)
    ELSE body[match].b

\* re.compile(r'keyword\s+"([^"]+)"\s*\{').finditer(config): the positions
\* of the headers that a brace follows, left to right.
IsHeaderAt(config, keyword, i) ==
    /\ i < Len(config)
    /\ config[i].t = "header" /\ config[i].a = <<keyword>>
    /\ config[i + 1].t = "{"
RECURSIVE finditer(_, _, _)
finditer(config, keyword, i) ==
    IF i > Len(config) THEN <<>>
    ELSE IF IsHeaderAt(config, keyword, i)
         THEN <<i>> \o finditer(config, keyword, i + 2)
         ELSE finditer(config, keyword, i + 1)

\* The body of the while loop: `{` adds one, `}` takes one.
BraceStepFlat(brace_count, ch) ==
    IF ch.t = "}" THEN brace_count - 1 ELSE brace_count
BraceStep(brace_count, ch) ==
    IF ch.t = "{" THEN brace_count + 1
    ELSE IF ch.t = "}" THEN brace_count - 1 ELSE brace_count

\* while brace_count > 0 and end < len(config): ...; end += 1
\* (indices as in the code, from 0).
RECURSIVE ScanEnd(_, _, _)
ScanEnd(config, end, brace_count) ==
    IF brace_count > 0 /\ end < Len(config)
    THEN ScanEnd(config, end + 1, BraceStep(brace_count, config[end + 1]))
    ELSE end

\* body = config[start : end - 1]
BlockBody(config, start) == Slice(config, start, ScanEnd(config, start, 1) - 1)

\* The searches of list_auth_groups in a block body.
mutual_match(body) == FirstMatch(body, "array", <<"chap-", "mutual">>, None)
chap_match(body) == FirstMatch(body, "array", <<"chap">>, None)
user_match(body) == FirstMatch(body, "field", <<"user">>, None)
secret_match_any(body) == FirstMatch(body, "field", <<"secret">>, None)
secret_match(body) == FirstMatch(body, "field", <<"secret">>, "mutual-")
mutual_user_match(body) == FirstMatch(body, "field", <<"mutual-", "user">>, None)
mutual_secret_match(body) == FirstMatch(body, "field", <<"mutual-", "secret">>, None)
\* The basic chap branch searches `secret` without the look-behind.
chap_secret_match(body) == FirstMatch(body, "field", <<"secret">>, None)

\* One AuthGroupInfo, as the loop body of list_auth_groups fills it.
AuthGroupInfo(name, body) ==
    IF mutual_match(body) # 0
    THEN [name |-> name,
          chap_username |-> Group1(body, user_match(body)),
          chap_secret |-> Group1(body, secret_match(body)),
          chap_mutual_username |-> Group1(body, mutual_user_match(body)),
          chap_mutual_secret |-> Group1(body, mutual_secret_match(body))]
    ELSE IF chap_match(body) # 0
    THEN [name |-> name,
          chap_username |-> Group1(body, user_match(body)),
          chap_secret |-> Group1(body, chap_secret_match(body)),
          chap_mutual_username |-> None,
          chap_mutual_secret |-> None]
    ELSE [name |-> name, chap_username |-> None, chap_secret |-> None,
          chap_mutual_username |-> None, chap_mutual_secret |-> None]

\* The searches of list_iscsi_targets in a target body.
pg_match(body) == FirstMatch(body, "field", <<"portal-group">>, None)
ag_match(body) == FirstMatch(body, "field", <<"auth-group">>, None)
IsNameField(x) == x.t = "field" /\ KeyEndsWith(x.a, <<"name">>)
\* r'portal-group\s*\{[^}]*name\s*=\s*"([^"]+)"': the name fields that a
\* `portal-group {` at i reaches without crossing a `}`.
NamesAfter(body, i) ==
    {j \in (i + 2)..Len(body) :
        /\ IsNameField(body[j])
        /\ \A k \in (i + 2)..(j - 1) : body[k].t # "}"}
\* Leftmost start, then the greedy [^}]* gives the last name it reaches.
pg_block_match(body) ==
    LET starts == {i \in 1..Len(body) :
                      /\ body[i].t = "word"
                      /\ KeyEndsWith(body[i].a, <<"portal-group">>)
                      /\ i < Len(body) /\ body[i + 1].t = "{"
                      /\ NamesAfter(body, i) # {}}
    IN IF starts = {} THEN 0
       ELSE LET i == CHOOSE x \in starts : \A y \in starts : x <= y
            IN CHOOSE j \in NamesAfter(body, i) :
                   \A k \in NamesAfter(body, i) : k <= j

RECURSIVE LunsOf(_)
LunsOf(body) ==
    IF body = <<>> THEN <<>>
    ELSE IF IsNameField(Head(body)) /\ StartsWithDev(Head(body).b)
         THEN <<[id |-> 0, name |-> Head(body).b]>> \o LunsOf(Tail(body))
         ELSE LunsOf(Tail(body))

\* One target dict, as the loop body of list_iscsi_targets fills it.
TargetInfo(target_name, target_body) ==
    [name |-> target_name,
     portal_group |-> IF pg_match(target_body) # 0
                      THEN Group1(target_body, pg_match(target_body))
                      ELSE Group1(target_body, pg_block_match(target_body)),
     auth_group |-> Group1(target_body, ag_match(target_body)),
     luns |-> LunsOf(target_body)]

\* The locals `start` and body of each loop iteration (start counts from 0:
\* match.end() of a header at i, brace at i + 1, is i + 1).
BlocksOf(config, keyword) ==
    LET m == finditer(config, keyword, 1)
    IN [k \in 1..Len(m) |->
           [name |-> config[m[k]].b,
            start |-> m[k] + 1,
            body |-> BlockBody(config, m[k] + 1)]]

list_auth_groups(config) ==
    LET blocks == BlocksOf(config, "auth-group")
    IN [k \in 1..Len(blocks) |-> AuthGroupInfo(blocks[k].name, blocks[k].body)]

list_iscsi_targets(config) ==
    LET blocks == BlocksOf(config, "target")
    IN [k \in 1..Len(blocks) |-> TargetInfo(blocks[k].name, blocks[k].body)]

ConfigInit ==
    /\ TrackerInit
    /\ ToolIdle
    /\ ReconcileIdle
    /\ SizeIdle
    /\ DiffIdle
    /\ InventoryIdle
    /\ ctld_config \in ConfigTexts
    /\ auth_groups = <<>>
    /\ iscsi_targets = <<>>
    /\ bodies = <<>>

ListAuthGroups(outcome) ==
    LET config == get_ctld_config(ctld_config, outcome)
    IN /\ auth_groups' = list_auth_groups(config)
       /\ bodies' = BlocksOf(config, "auth-group")
       /\ UNCHANGED <<ctld_config, iscsi_targets>>
       /\ UNCHANGED <<toolVars, trackerVars, reconcileVars, sizeVars, diffVars, inventoryVars>>

ListIscsiTargets(outcome) ==
    LET config == get_ctld_config(ctld_config, outcome)
    IN /\ iscsi_targets' = list_iscsi_targets(config)
       /\ bodies' = BlocksOf(config, "target")
       /\ UNCHANGED <<ctld_config, auth_groups>>
       /\ UNCHANGED <<toolVars, trackerVars, reconcileVars, sizeVars, diffVars, inventoryVars>>

ConfigNext ==
    \/ \E outcome \in ReadOutcomes : ListAuthGroups(outcome)
    \/ \E outcome \in ReadOutcomes : ListIscsiTargets(outcome)

ConfigSpec == ConfigInit /\ [][ConfigNext]_vars

(***************************************************************************)
(* The size parsers K8sClient._parse_size (src/e2e-tests/lib/k8s_client.py)*)
(* and StorageMonitor._parse_size (storage_monitor.py).  A string is the   *)
(* sequence of its characters.                                             *)
(***************************************************************************)
MaxSizeLen == 4

Digits == {"0", "1", "2", "3", "4", "5", "6", "7", "8", "9"}
SizeChars == {"1", "5", ".", "-", "K", "i", "k", " "}
Str1Gi == <<"1", "G", "i">>
Str1G == <<"1", "G">>
Str500Mi == <<"5", "0", "0", "M", "i">>
Str1000000 == <<"1", "0", "0", "0", "0", "0", "0">>
StrInfKi == <<"i", "n", "f", "K", "i">>
\* The size strings of the model: every short string over SizeChars and a
\* few longer ones with the larger units.
SizeStrings ==
    SeqsUpTo(SizeChars, MaxSizeLen)
    \cup {Str1Gi, Str1G, Str500Mi, Str1000000, StrInfKi,
          <<"1", "M">>, <<"1", "M", "i">>, <<"1", "g">>, <<"1", "g", "i">>,
          <<"-", "1", "M", "i">>}

DigitValue(c) ==
    CASE c = "0" -> 0 [] c = "1" -> 1 [] c = "2" -> 2 [] c = "3" -> 3
      [] c = "4" -> 4 [] c = "5" -> 5 [] c = "6" -> 6 [] c = "7" -> 7
      [] c = "8" -> 8 [] c = "9" -> 9
\* str.upper() on one character.
UpperChar(c) ==
    CASE c = "k" -> "K" [] c = "g" -> "G" [] c = "i" -> "I"
      [] c = "n" -> "N" [] c = "f" -> "F" [] OTHER -> c
Upper(s) == [i \in 1..Len(s) |-> UpperChar(s[i])]

RECURSIVE Pow(_, _)
Pow(b, n) == IF n = 0 THEN 1 ELSE b * Pow(b, n - 1)

AllDigits(s) == s # <<>> /\ \A i \in 1..Len(s) : s[i] \in Digits
RECURSIVE DigitsValue(_)
DigitsValue(s) ==
    IF s = <<>> THEN 0
    ELSE DigitsValue(SubSeq(s, 1, Len(s) - 1)) * 10 + DigitValue(s[Len(s)])

\* str.strip(), which int() and float() apply to their argument.
RECURSIVE Strip(_)
Strip(s) ==
    IF s = <<>> THEN s
    ELSE IF Head(s) = " " THEN Strip(Tail(s))
    ELSE IF s[Len(s)] = " " THEN Strip(SubSeq(s, 1, Len(s) - 1))
    ELSE s

IsSigned(t) == t # <<>> /\ t[1] \in {"-", "+"}
Unsigned(t) == IF IsSigned(t) THEN Tail(t) ELSE t
SignOf(t) == IF t # <<>> /\ t[1] = "-" THEN -1 ELSE 1

\* int(size_str): optional sign and decimal digits; ok = FALSE is ValueError.
int(s) ==
    LET t == Strip(s)
    IN IF AllDigits(Unsigned(t))
       THEN [ok |-> TRUE, value |-> SignOf(t) * DigitsValue(Unsigned(t))]
       ELSE [ok |-> FALSE, value |-> 0]

\* Position of the first "." of a string, 0 when it has none.
DotAt(s) ==
    LET dots == {i \in 1..Len(s) : s[i] = "."}
    IN IF dots = {} THEN 0 ELSE CHOOSE i \in dots : \A j \in dots : i <= j

\* float(s) for a decimal literal or an infinity: the number is
\* sign * num / scale; ok = FALSE is ValueError.
float(s) ==
    LET t == Strip(s)
        u == Unsigned(t)
        d == DotAt(u)
        ip == IF d = 0 THEN u ELSE SubSeq(u, 1, d - 1)
        fp == IF d = 0 THEN <<>> ELSE SubSeq(u, d + 1, Len(u))
        bad == [ok |-> FALSE, inf |-> FALSE, sign |-> 1, num |-> 0, scale |-> 1]
    IN IF Upper(u) = <<"I", "N", "F">>
       THEN [ok |-> TRUE, inf |-> TRUE, sign |-> SignOf(t), num |-> 0, scale |-> 1]
       ELSE IF /\ ip \o fp # <<>>
               /\ AllDigits(ip \o fp)
       THEN [ok |-> TRUE, inf |-> FALSE, sign |-> SignOf(t),
             num |-> DigitsValue(ip \o fp), scale |-> Pow(10, Len(fp))]
       ELSE bad

\* int(f * multiplier): truncation towards zero; int() of an infinity raises
\* OverflowError.
IntOfProduct(f, multiplier) ==
    IF f.inf THEN [raised |-> TRUE, value |-> 0]
    ELSE [raised |-> FALSE,
          value |-> f.sign * ((f.num * multiplier) \div f.scale)]

Return(value) == [raised |-> FALSE, value |-> value]

EndsWith(s, suffix) ==
    /\ Len(s) >= Len(suffix)
    /\ SubSeq(s, Len(s) - Len(suffix) + 1, Len(s)) = suffix

\* binary_units then decimal_units, in the order of the two loops.
Unit(suffix, base, power) == [suffix |-> suffix, base |-> base, power |-> power]
binary_units ==
    <<Unit(<<"K", "i">>, 1024, 1), Unit(<<"M", "i">>, 1024, 2),
      Unit(<<"G", "i">>, 1024, 3), Unit(<<"T", "i">>, 1024, 4)>>
decimal_units_binary ==
    <<Unit(<<"K">>, 1024, 1), Unit(<<"M">>, 1024, 2),
      Unit(<<"G">>, 1024, 3), Unit(<<"T">>, 1024, 4)>>
decimal_units ==
    <<Unit(<<"K">>, 1000, 1), Unit(<<"M">>, 1000, 2),
      Unit(<<"G">>, 1000, 3), Unit(<<"T">>, 1000, 4)>>

\* for suffix, multiplier in units.items(): if size_str.endswith(suffix):
\* try: return int(float(size_str[:-len(suffix)]) * multiplier)
\* except ValueError: pass
RECURSIVE TryUnits(_, _)
TryUnits(str, units) ==
    IF units = <<>> THEN Return(0)
    ELSE LET unit == Head(units)
             f == float(SubSeq(str, 1, Len(str) - Len(unit.suffix)))
         IN IF EndsWith(str, unit.suffix) /\ f.ok
            THEN IntOfProduct(f, Pow(unit.base, unit.power))
            ELSE TryUnits(str, Tail(units))

\* K8sClient._parse_size
K8sParse(str) ==
    IF str = <<>> THEN Return(0)
    ELSE IF int(str).ok THEN Return(int(str).value)
    ELSE TryUnits(str, binary_units \o decimal_units)

\* Number of digits of s from position i on.
RECURSIVE DigitRun(_, _)
DigitRun(s, i) ==
    IF i <= Len(s) /\ s[i] \in Digits THEN 1 + DigitRun(s, i + 1) ELSE 0
RECURSIVE SpaceRun(_, _)
SpaceRun(s, i) ==
    IF i <= Len(s) /\ s[i] = " " THEN 1 + SpaceRun(s, i + 1) ELSE 0

\* multipliers = {"K": 1024, "M": 1024**2, "G": 1024**3, "T": 1024**4}
multipliers_decimal(suffix) ==
    CASE suffix = "K" -> Pow(1000, 1) [] suffix = "M" -> Pow(1000, 2)
      [] suffix = "G" -> Pow(1000, 3) [] suffix = "T" -> Pow(1000, 4)
multipliers(suffix) ==
    CASE suffix = "K" -> Pow(1024, 1) [] suffix = "M" -> Pow(1024, 2)
      [] suffix = "G" -> Pow(1024, 3) [] suffix = "T" -> Pow(1024, 4)

\* re.match(r"^(\d+(?:\.\d+)?)\s*([KMGT])?$", s): group 1, group 2 (None
\* when absent); ok = FALSE when there is no match.
SizeMatch(s) ==
    LET n1 == DigitRun(s, 1)
        n2 == IF n1 + 1 <= Len(s) /\ s[n1 + 1] = "." THEN DigitRun(s, n1 + 2) ELSE 0
        numEnd == IF n2 > 0 THEN n1 + 1 + n2 ELSE n1
        sp == SpaceRun(s, numEnd + 1)
        rest == SubSeq(s, numEnd + sp + 1, Len(s))
    IN IF n1 = 0 THEN [ok |-> FALSE, group1 |-> <<>>, group2 |-> None]
       ELSE IF rest = <<>>
       THEN [ok |-> TRUE, group1 |-> SubSeq(s, 1, numEnd), group2 |-> None]
       ELSE IF Len(rest) = 1 /\ rest[1] \in {"K", "M", "G", "T"}
       THEN [ok |-> TRUE, group1 |-> SubSeq(s, 1, numEnd), group2 |-> rest[1]]
       ELSE [ok |-> FALSE, group1 |-> <<>>, group2 |-> None]

\* StorageMonitor._parse_size
MonitorParse(str) ==
    IF str = <<>> \/ str = <<"-">> THEN Return(0)
    ELSE IF int(str).ok THEN Return(int(str).value)
    ELSE LET match == SizeMatch(Upper(str))
         IN IF match.ok
            THEN IntOfProduct(float(match.group1),
                              IF match.group2 # None
                              THEN multipliers(match.group2) ELSE 1)
            ELSE Return(0)

SizeInit ==
    /\ TrackerInit
    /\ ToolIdle
    /\ ReconcileIdle
    /\ ConfigIdle
    /\ DiffIdle
    /\ InventoryIdle
    /\ size_str \in SizeStrings
    /\ size_call = [fn |-> None, raised |-> FALSE, value |-> 0]

\* K8sClient._parse_size(size_str)
K8sParseSize ==
    /\ size_call' = [fn |-> "K8sClient"] @@ K8sParse(size_str)
    /\ UNCHANGED <<size_str, configVars, diffVars, inventoryVars>>
    /\ UNCHANGED <<toolVars, trackerVars, reconcileVars>>

\* StorageMonitor._parse_size(size_str)
MonitorParseSize ==
    /\ size_call' = [fn |-> "StorageMonitor"] @@ MonitorParse(size_str)
    /\ UNCHANGED <<size_str, configVars, diffVars, inventoryVars>>
    /\ UNCHANGED <<toolVars, trackerVars, reconcileVars>>

SizeNext == K8sParseSize \/ MonitorParseSize

SizeSpec == SizeInit /\ [][SizeNext]_vars

(***************************************************************************)
(* StorageMonitor state snapshots: StorageState and diff_state             *)
(* (src/e2e-tests/lib/storage_monitor.py).                                 *)
(***************************************************************************)
MaxItems == 2

DatasetNames == {<<"tank/csi/v1">>, <<"tank/csi/v2">>}
\* The dataclasses; a str is a sequence, an Optional value <<>> or <<x>>.
DatasetInfo(name, type, used, available, referenced, volsize, origin, clones) ==
    [name |-> name, type |-> type, used |-> used, available |-> available,
     referenced |-> referenced, volsize |-> volsize, origin |-> origin,
     clones |-> clones]
SnapshotInfo(name, dataset, snap_name, used, referenced, clones) ==
    [name |-> name, dataset |-> dataset, snap_name |-> snap_name,
     used |-> used, referenced |-> referenced, clones |-> clones]
LunInfo(lun_id, backend_type, serial, device_id, size, blocksize, path) ==
    [lun_id |-> lun_id, backend |-> backend_type, serial |-> serial,
     device_id |-> device_id, size |-> size, blocksize |-> blocksize,
     path |-> path]
PortInfo(port_id, port_type, target_name, online) ==
    [port_id |-> port_id, port_type |-> port_type,
     target_name |-> target_name, online |-> online]
\* The states of the model: up to MaxItems datasets (a name may repeat), at
\* most one snapshot, LUN and port, and one of two configuration texts.
StorageStates ==
    {StorageState(ds, sn, ln, ps, cf) :
        ds \in SeqsUpTo({DatasetInfo(n, <<"volume">>, 0, 0, 0, <<1024>>, <<>>, <<>>) :
                            n \in DatasetNames}, MaxItems),
        sn \in SeqsUpTo({SnapshotInfo(<<"tank/csi/v1", "@", "s1">>,
                                      <<"tank/csi/v1">>, <<"s1">>, 0, 0, <<>>)}, 1),
        ln \in SeqsUpTo({LunInfo(0, <<"block">>, <<>>, <<>>, 1024, 512,
                                 <<<<"/dev/zvol/tank/csi/v1">>>>),
                         LunInfo(1, <<"block">>, <<>>, <<>>, 1024, 512,
                                 <<<<"/dev/zvol/tank/csi/v2">>>>)}, 1),
        ps \in SeqsUpTo({PortInfo(0, <<"iscsi">>, <<"iqn-x">>, TRUE)}, 1),
        cf \in {<<>>, <<Header("target", "iqn-x"), Open, Close>>}}
\* {d.name for d in state.datasets} and the like.
DatasetKeys(state) == {state.datasets[i].name : i \in 1..Len(state.datasets)}
SnapshotKeys(state) == {state.snapshots[i].name : i \in 1..Len(state.snapshots)}
LunKeys(state) == {state.luns[i].lun_id : i \in 1..Len(state.luns)}

\* after_keys - before_keys and before_keys - after_keys.
AddedKeysAll(before_keys, after_keys) == after_keys
AddedKeys(before_keys, after_keys) == after_keys \ before_keys
RemovedKeys(before_keys, after_keys) == before_keys \ after_keys

\* list(a_set): the elements once each, in an order the code does not fix.
Listings(S) ==
    {f \in [1..Cardinality(S) -> S] :
        \A i, j \in 1..Cardinality(S) : i # j => f[i] # f[j]}

DiffInit ==
    /\ TrackerInit
    /\ ToolIdle
    /\ ReconcileIdle
    /\ ConfigIdle
    /\ SizeIdle
    /\ InventoryIdle
    /\ before \in StorageStates
    /\ after \in StorageStates
    /\ diff_call = [done |-> FALSE, result |-> EmptyDiff]

\* diff_state(before, after)
DiffState ==
    /\ \E da \in Listings(AddedKeys(DatasetKeys(before), DatasetKeys(after))),
          dr \in Listings(RemovedKeys(DatasetKeys(before), DatasetKeys(after))),
          sa \in Listings(AddedKeys(SnapshotKeys(before), SnapshotKeys(after))),
          sr \in Listings(RemovedKeys(SnapshotKeys(before), SnapshotKeys(after))),
          la \in Listings(AddedKeys(LunKeys(before), LunKeys(after))),
          lr \in Listings(RemovedKeys(LunKeys(before), LunKeys(after))) :
          diff_call' =
              [done |-> TRUE,
               result |-> [datasets |-> [added |-> da, removed |-> dr],
                           snapshots |-> [added |-> sa, removed |-> sr],
                           luns |-> [added |-> la, removed |-> lr],
                           config_changed |->
                               before.ctld_config # after.ctld_config]]
    /\ UNCHANGED <<before, after>>
    /\ UNCHANGED <<toolVars, trackerVars, reconcileVars, configVars, sizeVars, inventoryVars>>

DiffNext == DiffState

DiffSpec == DiffInit /\ [][DiffNext]_vars

(***************************************************************************)
(* StorageMonitor inventory builders and capture_state                     *)
(* (src/e2e-tests/lib/storage_monitor.py).  The output of `zfs list -H` is *)
(* a sequence of lines, a line the sequence of its tab-separated fields,   *)
(* a field a sequence of characters or name parts.                         *)
(***************************************************************************)
MaxLines == 2

V1 == <<"tank/csi/v1">>
V2 == <<"tank/csi/v2">>
S1 == <<"tank/csi/v1", "@", "s1">>
Dash == <<"-">>

\* name, type, used, avail, refer, volsize, origin, clones
ZfsLine(name) ==
    <<name, <<"volume">>, <<"0">>, <<"0">>, <<"0">>, <<"1", "0", "2", "4">>,
      Dash, Dash>>
\* name, used, refer, clones
SnapLine(name) == <<name, <<"0">>, <<"0">>, Dash>>

\* Lines of a dataset listing: well-formed, cut short, with a field too
\* many, with a size that is not a number, empty.
DatasetLines ==
    {ZfsLine(V1), ZfsLine(V2), SubSeq(ZfsLine(V2), 1, 3),
     ZfsLine(V2) \o <<<<"x">>>>, [ZfsLine(V2) EXCEPT ![3] = <<"x">>], <<>>}
SnapshotLines ==
    {SnapLine(S1), SubSeq(SnapLine(S1), 1, 2), SnapLine(V1),
     [SnapLine(S1) EXCEPT ![2] = <<"x">>]}

\* One <lun> element of `ctladm devlist -x`: the id attribute (absent: <<>>)
\* and the text of its children (absent or empty: <<>>).
LunElem(id, size, blocksize, file) ==
    [id |-> id, backend_type |-> <<"block">>, serial_number |-> <<>>,
     device_id |-> <<>>, size |-> size, blocksize |-> blocksize, file |-> file]
LunOk == LunElem(<<<<"0">>>>, <<"2">>, <<>>, <<"/dev/zvol/tank/csi/v1">>)
LunBadId == LunElem(<<<<"x">>>>, <<"2">>, <<>>, <<"/dev/zvol/tank/csi/v2">>)
\* The XML document: whether ET.fromstring accepts it, and its <lun> elements.
CtlDoc(parses, luns) == [parses |-> parses, luns |-> luns]
CtlDocs ==
    {CtlDoc(FALSE, <<>>), CtlDoc(TRUE, <<>>), CtlDoc(TRUE, <<LunOk>>),
     CtlDoc(TRUE, <<LunOk, LunBadId>>)}

\* Lines of `ctladm portlist -v`: a port header or a target name line.
PortLine(port_id, port_type, online) ==
    [kind |-> "port", port_id |-> port_id, port_type |-> port_type,
     online |-> online, name |-> <<>>]
TargetLine(name) ==
    [kind |-> "target", port_id |-> <<>>, port_type |-> <<>>,
     online |-> FALSE, name |-> name]
PortOutputs ==
    {<<>>, <<PortLine(<<"0">>, <<"iscsi">>, TRUE)>>,
     <<PortLine(<<"0">>, <<"iscsi">>, TRUE), TargetLine(<<"iqn-x">>)>>}

\* What running a command does: output, non-zero exit (CalledProcessError),
\* or the program cannot be started (FileNotFoundError from subprocess.run).
CmdOutcomes == {"ok", "exit_nonzero", "not_installed"}

Raise == [raised |-> TRUE, value |-> <<>>]

\* The value of an Optional field: <<>> is None, <<x>> is x.
NoValue == <<>>
Some(x) == <<x>>

\* int(field) if field != "-" else 0
IntOrZero(field) == IF field # Dash THEN int(field) ELSE [ok |-> TRUE, value |-> 0]

\* clones.split(",") if clones and clones != "-" else []
RECURSIVE SplitComma(_, _)
SplitComma(s, acc) ==
    IF s = <<>> THEN <<acc>>
    ELSE IF Head(s) = "," THEN <<acc>> \o SplitComma(Tail(s), <<>>)
    ELSE SplitComma(Tail(s), Append(acc, Head(s)))
ClonesOf(clones) ==
    IF clones # <<>> /\ clones # Dash THEN SplitComma(clones, <<>>) ELSE <<>>

\* The loop of list_datasets over the lines of stdout.
RECURSIVE ParseDatasets(_, _)
ParseDatasets(lines, datasets) ==
    IF lines = <<>> THEN Return(datasets)
    ELSE LET parts == Head(lines)
         IN IF parts = <<>> \/ Len(parts) < 8
            THEN ParseDatasets(Tail(lines), datasets)
            ELSE IF Len(parts) # 8
            THEN Raise      \* too many values to unpack
            ELSE IF \/ ~IntOrZero(parts[3]).ok
                    \/ ~IntOrZero(parts[4]).ok
                    \/ ~IntOrZero(parts[5]).ok
                    \/ (parts[6] # <<>> /\ ~IntOrZero(parts[6]).ok)
            THEN Raise      \* int() of a field that is not a number
            ELSE ParseDatasets(Tail(lines), Append(datasets,
                     DatasetInfo(parts[1], parts[2],
                                 IntOrZero(parts[3]).value,
                                 IntOrZero(parts[4]).value,
                                 IntOrZero(parts[5]).value,
                                 IF parts[6] # <<>> /\ parts[6] # Dash
                                 THEN Some(int(parts[6]).value) ELSE NoValue,
                                 IF parts[7] # <<>> /\ parts[7] # Dash
                                 THEN Some(parts[7]) ELSE NoValue,
                                 ClonesOf(parts[8]))))

\* except subprocess.CalledProcessError: return []
OnCommand(outcome, parsed) ==
    CASE outcome = "ok" -> parsed
      [] outcome = "exit_nonzero" -> Return(<<>>)
      [] outcome = "not_installed" -> Raise

list_datasets(stdout, outcome) == OnCommand(outcome, ParseDatasets(stdout, <<>>))

\* name.rsplit("@", 1) of a name that has an "@".
LastAt(name) ==
    CHOOSE i \in 1..Len(name) :
        name[i] = "@" /\ \A j \in (i + 1)..Len(name) : name[j] # "@"
HasAt(name) == \E i \in 1..Len(name) : name[i] = "@"

\* The loop of list_snapshots over the lines of stdout.
RECURSIVE ParseSnapshots(_, _)
ParseSnapshots(lines, snapshots) ==
    IF lines = <<>> THEN Return(snapshots)
    ELSE LET parts == Head(lines)
         IN IF parts = <<>> \/ Len(parts) < 4
            THEN ParseSnapshots(Tail(lines), snapshots)
            ELSE IF Len(parts) # 4
            THEN Raise
            ELSE IF ~HasAt(parts[1])
            THEN ParseSnapshots(Tail(lines), snapshots)
            ELSE IF ~IntOrZero(parts[2]).ok \/ ~IntOrZero(parts[3]).ok
            THEN Raise
            ELSE ParseSnapshots(Tail(lines), Append(snapshots,
                     SnapshotInfo(parts[1],
                                  SubSeq(parts[1], 1, LastAt(parts[1]) - 1),
                                  SubSeq(parts[1], LastAt(parts[1]) + 1, Len(parts[1])),
                                  IntOrZero(parts[2]).value,
                                  IntOrZero(parts[3]).value,
                                  ClonesOf(parts[4]))))

list_snapshots(stdout, outcome) == OnCommand(outcome, ParseSnapshots(stdout, <<>>))

\* get_text(tag, default) and get_int(tag, default) of list_ctl_luns.
get_text(lun_elem, tag, default) ==
    IF lun_elem[tag] # <<>> THEN lun_elem[tag] ELSE default
get_int(lun_elem, tag, default_str, default) ==
    IF int(get_text(lun_elem, tag, default_str)).ok
    THEN int(get_text(lun_elem, tag, default_str)).value
    ELSE default

\* The loop of list_ctl_luns over root.findall("lun").
RECURSIVE ParseLuns(_, _)
ParseLuns(elems, luns) ==
    IF elems = <<>> THEN Return(luns)
    ELSE LET lun_elem == Head(elems)
             id == IF lun_elem.id = <<>> THEN [ok |-> TRUE, value |-> -1]
                   ELSE int(lun_elem.id[1])
         IN IF ~id.ok
            THEN Raise      \* int() of an id that is not a number
            ELSE ParseLuns(Tail(elems), Append(luns,
                     LunInfo(id.value,
                             get_text(lun_elem, "backend_type", <<"unknown">>),
                             get_text(lun_elem, "serial_number", <<>>),
                             get_text(lun_elem, "device_id", <<>>),
                             get_int(lun_elem, "size", <<"0">>, 0)
                                 * get_int(lun_elem, "blocksize", <<"5", "1", "2">>, 512),
                             get_int(lun_elem, "blocksize", <<"5", "1", "2">>, 512),
                             IF get_text(lun_elem, "file", <<>>) # <<>>
                             THEN Some(get_text(lun_elem, "file", <<>>))
                             ELSE NoValue)))

\* except ET.ParseError: return []
list_ctl_luns(doc, outcome) ==
    OnCommand(outcome, IF doc.parses THEN ParseLuns(doc.luns, <<>>) ELSE Return(<<>>))

\* The loop of list_ctl_ports: a header starts a port, a target line names
\* the current one; current_port is <<>> for None.
RECURSIVE ParsePorts(_, _, _)
ParsePorts(lines, ports, current_port) ==
    IF lines = <<>> THEN Return(ports \o current_port)
    ELSE LET line == Head(lines)
         IN IF line.kind = "port"
            THEN ParsePorts(Tail(lines), ports \o current_port,
                            <<PortInfo(int(line.port_id).value, line.port_type,
                                       <<>>, line.online)>>)
            ELSE IF current_port # <<>> /\ line.kind = "target"
            THEN ParsePorts(Tail(lines), ports,
                            <<[current_port[1] EXCEPT !.target_name = line.name]>>)
            ELSE ParsePorts(Tail(lines), ports, current_port)

list_ctl_ports(stdout, outcome) == OnCommand(outcome, ParsePorts(stdout, <<>>, <<>>))

BuilderInit ==
    /\ TrackerInit
    /\ ToolIdle
    /\ ReconcileIdle
    /\ ConfigIdle
    /\ SizeIdle
    /\ DiffIdle
    /\ inv_call = NoCall
    /\ \/ /\ zfs_out \in SeqsUpTo(DatasetLines, MaxLines)
          /\ snap_out = <<>> /\ ctl_out = CtlDoc(TRUE, <<>>) /\ ports_out = <<>>
       \/ /\ snap_out \in SeqsUpTo(SnapshotLines, 1)
          /\ zfs_out = <<>> /\ ctl_out = CtlDoc(TRUE, <<>>) /\ ports_out = <<>>
       \/ /\ ctl_out \in CtlDocs
          /\ zfs_out = <<>> /\ snap_out = <<>> /\ ports_out = <<>>
       \/ /\ ports_out \in PortOutputs
          /\ zfs_out = <<>> /\ snap_out = <<>> /\ ctl_out = CtlDoc(TRUE, <<>>)

Called(fn, outcomes, r) ==
    [fn |-> fn, outcomes |-> outcomes, raised |-> r.raised, result |-> r.value]

ListDatasets(outcome) ==
    /\ inv_call' = Called("list_datasets", [NoOutcomes EXCEPT !.datasets = outcome],
                          list_datasets(zfs_out, outcome))
    /\ UNCHANGED <<zfs_out, snap_out, ctl_out, ports_out>>
    /\ UNCHANGED <<toolVars, trackerVars, reconcileVars, configVars, sizeVars, diffVars>>

ListSnapshots(outcome) ==
    /\ inv_call' = Called("list_snapshots", [NoOutcomes EXCEPT !.snapshots = outcome],
                          list_snapshots(snap_out, outcome))
    /\ UNCHANGED <<zfs_out, snap_out, ctl_out, ports_out>>
    /\ UNCHANGED <<toolVars, trackerVars, reconcileVars, configVars, sizeVars, diffVars>>

ListCtlLuns(outcome) ==
    /\ inv_call' = Called("list_ctl_luns", [NoOutcomes EXCEPT !.luns = outcome],
                          list_ctl_luns(ctl_out, outcome))
    /\ UNCHANGED <<zfs_out, snap_out, ctl_out, ports_out>>
    /\ UNCHANGED <<toolVars, trackerVars, reconcileVars, configVars, sizeVars, diffVars>>

ListCtlPorts(outcome) ==
    /\ inv_call' = Called("list_ctl_ports", [NoOutcomes EXCEPT !.ports = outcome],
                          list_ctl_ports(ports_out, outcome))
    /\ UNCHANGED <<zfs_out, snap_out, ctl_out, ports_out>>
    /\ UNCHANGED <<toolVars, trackerVars, reconcileVars, configVars, sizeVars, diffVars>>

BuilderNext ==
    \/ \E outcome \in CmdOutcomes : ListDatasets(outcome)
    \/ \E outcome \in CmdOutcomes : ListSnapshots(outcome)
    \/ \E outcome \in CmdOutcomes : ListCtlLuns(outcome)
    \/ \E outcome \in CmdOutcomes : ListCtlPorts(outcome)

BuilderSpec == BuilderInit /\ [][BuilderNext]_vars

\* capture_state is checked on well-formed listings of a small backend.
CaptureInit ==
    /\ TrackerInit
    /\ ToolIdle
    /\ ReconcileIdle
    /\ SizeIdle
    /\ DiffIdle
    /\ auth_groups = <<>> /\ iscsi_targets = <<>> /\ bodies = <<>>
    /\ ctld_config \in {<<>>, <<Header("target", "iqn-x"), Open, Close>>}
    /\ zfs_out \in {<<>>, <<ZfsLine(V1)>>, <<ZfsLine(V1), ZfsLine(V2)>>}
    /\ snap_out \in {<<>>, <<SnapLine(S1)>>}
    /\ ctl_out \in {CtlDoc(TRUE, <<>>), CtlDoc(TRUE, <<LunOk>>)}
    /\ ports_out \in PortOutputs
    /\ inv_call = NoCall

\* capture_state: the five sub-captures in the order of the keyword
\* arguments; an exception of one of them leaves capture_state.
capture_state(o) ==
    LET datasets == list_datasets(zfs_out, o.datasets)
        snapshots == list_snapshots(snap_out, o.snapshots)
        luns == list_ctl_luns(ctl_out, o.luns)
        ports == list_ctl_ports(ports_out, o.ports)
    IN IF datasets.raised \/ snapshots.raised \/ luns.raised \/ ports.raised
       THEN [raised |-> TRUE, value |-> EmptyState]
       ELSE [raised |-> FALSE,
             value |-> StorageState(datasets.value, snapshots.value, luns.value,
                                    ports.value,
                                    get_ctld_config(ctld_config, o.config))]

\* One capture_state call per behaviour: a second call on the same outputs
\* adds nothing.
CaptureState(o) ==
    /\ inv_call = NoCall
    /\ inv_call' = Called("capture_state", o, capture_state(o))
    /\ UNCHANGED <<zfs_out, snap_out, ctl_out, ports_out>>
    /\ UNCHANGED <<toolVars, trackerVars, reconcileVars, configVars, sizeVars, diffVars>>

CaptureNext ==
    \E o \in [datasets : CmdOutcomes, snapshots : CmdOutcomes, luns : CmdOutcomes,
              ports : CmdOutcomes, config : ReadOutcomes] : CaptureState(o)

CaptureSpec == CaptureInit /\ [][CaptureNext]_vars

(***************************************************************************)
(* StorageMonitor.cleanup_volume: DeleteVolume through an AgentClient      *)
(* opened for the call.                                                    *)
(***************************************************************************)
\* `from lib.agent_client import AgentClient` succeeds, or grpc is missing
\* and the ImportError becomes a RuntimeError.
ImportOutcomes == {"imported", "import_error"}

\* The try block around client.delete_volume: its return value is returned
\* as it is, `except Exception` prints a warning and returns False.
cleanup_volume(imported, result) ==
    IF imported # "imported"
    THEN [raised |-> TRUE, ret |-> FALSE]
    ELSE LET r == AgentDeleteVolume(result)
         IN IF r.raised THEN [raised |-> FALSE, ret |-> FALSE]
                        ELSE [raised |-> FALSE, ret |-> r.ret]

CleanupVolumeInit ==
    /\ TrackerInit
    /\ MonitorIdle
    /\ CleanupIdle
    /\ HelperIdle
    /\ backend \in VolumeTables
    /\ pvs = {}
    /\ delete_flag = FALSE
    /\ rpc = "off"
    /\ k8s_pvs = {}
    /\ agent_volumes = <<>>
    /\ orphans = <<>>
    /\ dpos = 1
    /\ deleted = 0
    /\ delete_calls = <<>>
    /\ clients = 0
    /\ exit_code = -1
    /\ runs = 0

\* One call of cleanup_volume(volume_id) against the agent's volume table.
CleanupVolume(volume_id, imported, result) ==
    /\ result \in RpcResults(volume_id)
    /\ LET c == cleanup_volume(imported, result)
           sent == imported = "imported"
       IN /\ cv_call' = [done |-> TRUE, volume_id |-> volume_id,
                         result |-> IF sent THEN result ELSE None,
                         raised |-> c.raised, ret |-> c.ret]
          /\ backend' = IF sent /\ result = "ok"
                        THEN RemoveVolume(backend, volume_id) ELSE backend
    /\ UNCHANGED <<pvs, delete_flag, rpc, k8s_pvs, agent_volumes, orphans, dpos,
                   deleted, delete_calls, clients, exit_code, runs>>
    /\ UNCHANGED <<trackerVars, monitorVars, helperVars>>

CleanupVolumeNext ==
    \E volume_id \in VolIds, imported \in ImportOutcomes,
       result \in {"ok", "not_found", "error"} :
        CleanupVolume(volume_id, imported, result)

CleanupVolumeSpec == CleanupVolumeInit /\ [][CleanupVolumeNext]_vars

(***************************************************************************)
(* ctl-config-helper.py (src/ctld-agent/scripts): one invocation loads the *)
(* UCL file, applies one command and saves it, all under the lock file.    *)
(* A name is the sequence <<text up to the colon, rest>>.                  *)
(***************************************************************************)
MaxInvocations == 2
MaxExports == 2

CSI_ISCSI_PREFIX == <<"iqn.2024-01.org.freebsd.csi:">>
CSI_NVMEOF_PREFIX == <<"nqn.2024-01.org.freebsd.csi:">>

\* str.startswith
startswith(name, prefix) ==
    Len(name) >= Len(prefix) /\ SubSeq(name, 1, Len(prefix)) = prefix

is_csi_target(name) ==
    startswith(name, CSI_ISCSI_PREFIX) \/ startswith(name, CSI_NVMEOF_PREFIX)

UserIqn == <<"iqn.2012-06.com.example:", "u1">>
UserNqn == <<"nqn.2012-06.com.example:", "u2">>
CsiIqn == <<"iqn.2024-01.org.freebsd.csi:", "v1">>
CsiNqn == <<"nqn.2024-01.org.freebsd.csi:", "v1">>
HelperNames == {UserIqn, CsiIqn, CsiNqn}
CsiNames == {n \in HelperNames : is_csi_target(n)}
UnitIds == {1}

\* str(lun_id) / str(ns_id) of an int below ten.
IntToStr(n) == <<"0", "1", "2", "3", "4", "5", "6", "7", "8", "9">>[n + 1]

\* d[key] = value on a dict.
Put(entries, key, value) ==
    [n \in DOMAIN entries \cup {key} |-> IF n = key THEN value ELSE entries[n]]
\* {k: v for k, v in d.items() if k in keep}
Restrict(entries, keep) == [n \in DOMAIN entries \cap keep |-> entries[n]]

add_iscsi_target(config, iqn, auth_group, portal_group, lun_id, device_path) ==
    [config EXCEPT !.target =
        Section(TRUE,
                Put(config.target.entries, iqn,
                    [auth_group |-> auth_group, portal_group |-> portal_group,
                     lun |-> [id |-> IntToStr(lun_id), path |-> device_path]]))]

add_nvmeof_controller(config, nqn, auth_group, transport_group, ns_id, device_path) ==
    [config EXCEPT !.controller =
        Section(TRUE,
                Put(config.controller.entries, nqn,
                    [auth_group |-> auth_group, transport_group |-> transport_group,
                     namespace |-> [id |-> IntToStr(ns_id), path |-> device_path]]))]

\* `if "target" in config and target_name in config["target"]: del ...`
Del(entries, key) == Restrict(entries, DOMAIN entries \ {key})

remove_target_first_hit(config, target_name) ==
    IF target_name \in DOMAIN config.target.entries
    THEN [config |-> [config EXCEPT !.target.entries = Del(@, target_name)],
          removed |-> TRUE]
    ELSE [config |-> [config EXCEPT !.controller.entries = Del(@, target_name)],
          removed |-> target_name \in DOMAIN config.controller.entries]
remove_target(config, target_name) ==
    [config |-> [config EXCEPT !.target.entries = Del(@, target_name),
                               !.controller.entries = Del(@, target_name)],
     removed |-> \/ target_name \in DOMAIN config.target.entries
                 \/ target_name \in DOMAIN config.controller.entries]

\* The dicts of list_csi_targets, without their order.
list_csi_targets(config) ==
    {[type |-> "iscsi", name |-> n] :
        n \in {x \in DOMAIN config.target.entries : is_csi_target(x)}}
    \cup {[type |-> "nvmeof", name |-> n] :
        n \in {x \in DOMAIN config.controller.entries : is_csi_target(x)}}

\* {k: v for k, v in section.items() if not is_csi_target(k)}
WithoutCsiKeepAll(section) == section
WithoutCsi(section) ==
    Section(section.present,
            Restrict(section.entries,
                     {n \in DOMAIN section.entries : ~is_csi_target(n)}))

\* One csi_exports item.
Export(type, name, group, id) ==
    [type |-> type, name |-> name, auth_group |-> "ag0", group |-> group,
     id |-> id, device_path |-> "/dev/zvol/tank/csi/v1"]

\* The loop of sync_csi_targets over csi_exports.
RECURSIVE AddExports(_, _)
AddExports(config, csi_exports) ==
    IF csi_exports = <<>> THEN config
    ELSE LET export == Head(csi_exports)
             added ==
                 IF export.type = "iscsi"
                 THEN add_iscsi_target(config, export.name, export.auth_group,
                                       export.group, export.id, export.device_path)
                 ELSE IF export.type = "nvmeof"
                 THEN add_nvmeof_controller(config, export.name, export.auth_group,
                                            export.group, export.id,
                                            export.device_path)
                 ELSE config
         IN AddExports(added, Tail(csi_exports))

sync_csi_targets(config, csi_exports) ==
    AddExports([target |-> WithoutCsi(config.target),
                controller |-> WithoutCsi(config.controller)],
               csi_exports)

\* The exports a JSON file can hold: CSI names, either type.
Exports ==
    {Export(type, name, "g0", 0) : type \in {"iscsi", "nvmeof"}, name \in CsiNames}
ExportLists == UNION {[1..k -> Exports] : k \in 0..MaxExports}
\* The JSON files handed to the sync command of a concurrent invocation.
JsonFiles ==
    {<<>>, <<Export("iscsi", CsiIqn, "g0", 0)>>,
     <<Export("nvmeof", CsiNqn, "g0", 0), Export("iscsi", CsiNqn, "g0", 0)>>}

\* args after parse_args.
Args(command, name, id, exports, json_ok) ==
    [command |-> command, name |-> name, id |-> id, exports |-> exports,
     json_ok |-> json_ok]
HelperArgs ==
    {Args(c, n, i, <<>>, TRUE) :
        c \in {"add-iscsi", "add-nvmeof"}, n \in HelperNames, i \in UnitIds}
    \cup {Args("remove", n, 0, <<>>, TRUE) : n \in HelperNames}
    \cup {Args("list-csi", <<>>, 0, <<>>, TRUE)}
    \cup {Args("sync", <<>>, 0, e, TRUE) : e \in JsonFiles}
    \cup {Args("sync", <<>>, 0, <<>>, FALSE)}

\* The files the helper can find: none, or entries of the user and of
\* earlier invocations.
UserTarget ==
    [auth_group |-> "ag-user", portal_group |-> "pg0",
     lun |-> [id |-> "0", path |-> "/dev/zvol/tank/user"]]
UserController ==
    [auth_group |-> "ag-user", transport_group |-> "tg0",
     namespace |-> [id |-> "1", path |-> "/dev/zvol/tank/user"]]
InitialTargets ==
    {NoEntries,
     Put(NoEntries, UserIqn, UserTarget),
     Put(Put(NoEntries, UserIqn, UserTarget), CsiIqn, UserTarget)}
InitialControllers ==
    {NoEntries,
     Put(Put(NoEntries, UserNqn, UserController), CsiIqn, UserController)}
HelperFiles ==
    {MissingFile}
    \cup {[exists |-> TRUE,
           config |-> [target |-> Section(t # NoEntries, t),
                       controller |-> Section(c # NoEntries, c)]] :
            t \in InitialTargets, c \in InitialControllers}

HelperInit ==
    /\ TrackerInit
    /\ ReconcileIdle
    /\ MonitorIdle
    /\ CleanupIdle
    /\ cfg_file \in HelperFiles
    /\ cfg_file0 = cfg_file
    /\ lock_holders = {}
    /\ helper = [p \in Procs |-> NotRunning]
    /\ invocations = 0

\* A process is started: parse_args.  (Process 2 is the second one started.)
Invoke(p, a) ==
    /\ helper[p].pc \in {"idle", "exited"}
    /\ p = 1 \/ helper[1].pc # "idle"
    /\ invocations < MaxInvocations
    /\ helper' = [helper EXCEPT ![p] = [NotRunning EXCEPT !.pc = "parsed", !.args = a]]
    /\ invocations' = invocations + 1
    /\ UNCHANGED <<cfg_file, cfg_file0, lock_holders>>
    /\ UNCHANGED <<trackerVars, reconcileVars, monitorVars, cleanupVars>>

\* locket.lock_file(LOCK_PATH).acquire() returns once no other process
\* holds the lock.
CanAcquireAlways(holders) == TRUE
CanAcquire(holders) == holders = {}

Acquire(p) ==
    /\ helper[p].pc = "parsed"
    /\ CanAcquire(lock_holders)
    /\ lock_holders' = lock_holders \cup {p}
    /\ helper' = [helper EXCEPT ![p].pc = "locked"]
    /\ UNCHANGED <<cfg_file, cfg_file0, invocations>>
    /\ UNCHANGED <<trackerVars, reconcileVars, monitorVars, cleanupVars>>

\* load_config: the file's config, {} when the file is missing.
load_config(file) == IF file.exists THEN file.config ELSE EmptyConfig

\* The branches of main() on args.command, up to save_config.
RunCommand(h, config) ==
    LET a == h.args IN
    CASE a.command = "add-iscsi" ->
           [h EXCEPT !.pc = "saving",
                     !.config = add_iscsi_target(config, a.name, "ag0", "pg0", a.id,
                                                 "/dev/zvol/tank/csi/v1")]
      [] a.command = "add-nvmeof" ->
           [h EXCEPT !.pc = "saving",
                     !.config = add_nvmeof_controller(config, a.name, "ag0", "tg0",
                                                      a.id, "/dev/zvol/tank/csi/v1")]
      [] a.command = "remove" ->
           LET r == remove_target(config, a.name)
           IN IF r.removed
              THEN [h EXCEPT !.pc = "saving", !.config = r.config]
              ELSE [h EXCEPT !.pc = "finally", !.config = r.config, !.status = 1]
      [] a.command = "list-csi" ->
           [h EXCEPT !.pc = "finally", !.config = config, !.status = 0,
                     !.output = list_csi_targets(config)]
      [] OTHER ->
           IF a.json_ok
           THEN [h EXCEPT !.pc = "saving",
                          !.config = sync_csi_targets(config, a.exports)]
           ELSE [h EXCEPT !.pc = "finally", !.config = config, !.status = 1]

\* load_config and the command's work on the loaded dict; a file that
\* cannot be read or parsed ends the process with status 1.
Load(p, outcome) ==
    /\ helper[p].pc = "locked"
    /\ LET h == [helper[p] EXCEPT !.seen = cfg_file]
       IN helper' = [helper EXCEPT ![p] =
                        IF outcome = "error"
                        THEN [h EXCEPT !.pc = "finally", !.status = 1]
                        ELSE RunCommand([h EXCEPT !.loaded = TRUE],
                                        load_config(cfg_file))]
    /\ UNCHANGED <<cfg_file, cfg_file0, lock_holders, invocations>>
    /\ UNCHANGED <<trackerVars, reconcileVars, monitorVars, cleanupVars>>

\* save_config: open(CONFIG_PATH, 'w') truncates the file, then the dump is
\* written; an exception at either point ends the process with status 1.
SaveOutcomes == {"saved", "open_failed", "write_failed"}
save_config(file, config, outcome) ==
    CASE outcome = "saved" -> [exists |-> TRUE, config |-> config]
      [] outcome = "write_failed" -> [exists |-> TRUE, config |-> EmptyConfig]
      [] OTHER -> file

Save(p, outcome) ==
    /\ helper[p].pc = "saving"
    /\ cfg_file' = save_config(cfg_file, helper[p].config, outcome)
    /\ helper' = [helper EXCEPT ![p].pc = "finally",
                                ![p].status = IF outcome = "saved" THEN 0 ELSE 1,
                                ![p].wrote = outcome # "open_failed"]
    /\ UNCHANGED <<cfg_file0, lock_holders, invocations>>
    /\ UNCHANGED <<trackerVars, reconcileVars, monitorVars, cleanupVars>>

\* finally: lock.release(), then the process ends and its locals with it.
Release(p) ==
    /\ helper[p].pc = "finally"
    /\ lock_holders' = lock_holders \ {p}
    /\ helper' = [helper EXCEPT ![p].pc = "exited",
                                ![p].config = EmptyConfig,
                                ![p].seen = MissingFile,
                                ![p].loaded = FALSE,
                                ![p].output = {}]
    /\ UNCHANGED <<cfg_file, cfg_file0, invocations>>
    /\ UNCHANGED <<trackerVars, reconcileVars, monitorVars, cleanupVars>>

HelperNext ==
    \/ \E p \in Procs, a \in HelperArgs : Invoke(p, a)
    \/ \E p \in Procs : Acquire(p)
    \/ \E p \in Procs, outcome \in {"loaded", "error"} : Load(p, outcome)
    \/ \E p \in Procs, outcome \in SaveOutcomes : Save(p, outcome)
    \/ \E p \in Procs : Release(p)

HelperSpec == HelperInit /\ [][HelperNext]_vars

\* One sync invocation on any file with any export list.
SyncEntries ==
    {Restrict([n \in HelperNames |-> UserTarget], keep) : keep \in SUBSET HelperNames}
SyncSections ==
    {Section(FALSE, NoEntries)} \cup {Section(TRUE, e) : e \in SyncEntries}
SyncFiles ==
    {MissingFile}
    \cup {[exists |-> TRUE, config |-> [target |-> t, controller |-> c]] :
            t \in SyncSections, c \in SyncSections}
SyncInit ==
    /\ TrackerInit
    /\ ReconcileIdle
    /\ MonitorIdle
    /\ CleanupIdle
    /\ cfg_file \in SyncFiles
    /\ cfg_file0 = cfg_file
    /\ lock_holders = {}
    /\ \E e \in ExportLists :
          helper = [p \in Procs |->
                       IF p = 1
                       THEN [NotRunning EXCEPT !.pc = "parsed",
                                               !.args = Args("sync", <<>>, 0, e, TRUE)]
                       ELSE NotRunning]
    /\ invocations = MaxInvocations

SyncNext ==
    \/ Acquire(1)
    \/ \E outcome \in {"loaded", "error"} : Load(1, outcome)
    \/ \E outcome \in SaveOutcomes : Save(1, outcome)
    \/ Release(1)

SyncSpec == SyncInit /\ [][SyncNext]_vars

(***************************************************************************)
(* Properties of the tracker (checked under Spec).                         *)
(***************************************************************************)
Failing == {"rc_error", "timeout"}
EntryOf(k) == resources[calls[k].entry + 1]
IsFor(k) == calls[k].kind = EntryOf(k).kind /\ calls[k].name = EntryOf(k).name
SweepDone == pc = "sweep" /\ pos > Len(sorted_resources)
\* The delete of tracked entry i (1-based) was issued before the delete of entry j.
DeletedBefore(i, j) ==
    \A kj \in 1..Len(calls) : calls[kj].entry = j - 1 =>
        \E ki \in 1..(kj - 1) : calls[ki].entry = i - 1
IsClonePvc(r) == r.kind = "pvc" /\ r.resource_type = CLONE_PVC
IsSnapshot(r) == r.kind = "volumesnapshot" /\ r.resource_type = SNAPSHOT
IsPvc(r) == r.kind = "pvc"

\* C1: during a sweep the deletes issued so far are ordered by priority class
\* (POD < CLONE_PVC < SNAPSHOT < SOURCE_PVC < SECRET) and, within one class,
\* a later-tracked entry is deleted before an earlier-tracked one; each delete
\* names the entry's kind and name.
C1_DeleteOrder ==
    pc = "sweep" =>
        \A i, j \in 1..Len(calls) :
            /\ IsFor(i)
            /\ i < j =>
                \/ EntryOf(i).resource_type < EntryOf(j).resource_type
                \/ /\ EntryOf(i).resource_type = EntryOf(j).resource_type
                   /\ calls[i].entry > calls[j].entry

\* C1 witness: two entries of different classes tracked in class order (so the
\* class, not LIFO, decides) have both been deleted.
C1_Witness ==
    /\ pc = "sweep" /\ Len(calls) = 2
    /\ calls[1].entry = 0 /\ calls[2].entry = 1
    /\ resources[1].resource_type = CLONE_PVC
    /\ resources[2].resource_type = SECRET

\* C2: when the loop of a sweep is over, every entry that was tracked at its
\* start has had exactly one delete issued, whatever the other deletes did,
\* and no delete's failure aborted the sweep.
C2_EveryEntryOnce ==
    /\ pc # "raised"
    /\ SweepDone =>
        /\ Len(calls) = Len(resources)
        /\ \A e \in 1..Len(resources) :
              Cardinality({k \in 1..Len(calls) : calls[k].entry = e - 1 /\ IsFor(k)}) = 1

\* C2 witness: the first delete ran past its timeout and the second was issued.
C2_Witness ==
    /\ SweepDone /\ Len(calls) = 2
    /\ calls[1].result = "timeout" /\ calls[2].result = "rc0"

\* C3: a clone PVC whose depends_on names a tracked snapshot is deleted before
\* that snapshot, in whichever order the two were tracked.
C3_CloneBeforeSnapshot ==
    pc = "sweep" =>
        \A i, j \in 1..Len(resources) :
            (/\ IsClonePvc(resources[i])
             /\ IsSnapshot(resources[j])
             /\ resources[i].depends_on = resources[j].name)
            => DeletedBefore(i, j)

\* C3 witness: the clone was tracked before the snapshot it depends on (LIFO
\* alone would delete the snapshot first) and both deletes were issued.
C3_Witness ==
    /\ SweepDone /\ Len(resources) = 2
    /\ IsClonePvc(resources[1]) /\ IsSnapshot(resources[2])
    /\ resources[1].depends_on = resources[2].name
    /\ Len(calls) = 2

\* C4: a snapshot whose source_pvc names a tracked PVC (tracked as source or as
\* clone) is deleted before that PVC.
C4_SnapshotBeforeItsPvc ==
    pc = "sweep" =>
        \A i, j \in 1..Len(resources) :
            (/\ IsSnapshot(resources[i])
             /\ IsPvc(resources[j])
             /\ resources[i].depends_on = resources[j].name)
            => DeletedBefore(i, j)

\* C5: cleanup_all never raises, and what it returns is one warning per delete
\* that raised (non-zero exit other than not-found, or timeout), in deletion
\* order, and nothing for a delete that exited 0 or reported not found.
C5_WarningsAreFailures ==
    /\ pc # "raised"
    /\ pc = "idle" =>
        LET failed == SelectSeq(calls, LAMBDA c : c.result \in Failing) IN
        /\ Len(returned) = Len(failed)
        /\ \A k \in 1..Len(failed) :
              /\ returned[k].kind = failed[k].kind
              /\ returned[k].name = failed[k].name

\* C5 witness: a sweep returned after a timeout and a not-found.
C5_Witness ==
    /\ pc = "idle" /\ Len(calls) = 2
    /\ calls[1].result = "timeout" /\ calls[2].result = "rc_notfound"
    /\ Len(returned) = 1

\* C6: once cleanup_all has returned the tracker is empty until the next
\* track* call, and a cleanup_all entered in that situation has nothing to
\* sweep, issues no delete and returns no warning.
C6_EmptyAfterSweep ==
    /\ fresh => resources = <<>>
    /\ (pc = "sweep" /\ startedFresh) => sorted_resources = <<>> /\ calls = <<>>
    /\ (pc = "idle" /\ fresh /\ startedFresh) => calls = <<>> /\ returned = <<>>

\* C6 witness: a sweep in which a delete failed has returned.
C6_Witness ==
    /\ pc = "idle" /\ fresh /\ resources = <<>>
    /\ Len(calls) = 2 /\ calls[1].result = "rc_error" /\ calls[2].result = "rc0"

\* Entry i of the tracker is not in the tracker after the step.
Leaves(i) == i > Len(resources') \/ resources'[i] # resources[i]
LeftBySweep(i) ==
    /\ pc = "sweep" /\ pc' = "idle"
    /\ \E k \in 1..Len(calls) : calls[k].entry = i - 1 /\ IsFor(k)
LeftByClear == pc = "idle" /\ pc' = "idle" /\ resources' = <<>> /\ calls' = <<>>

\* C7 as stated: an entry leaves the tracker only in the return of a sweep
\* that issued a delete for it.
C7_LeavesOnlyBySweep ==
    [][\A i \in 1..Len(resources) : Leaves(i) => LeftBySweep(i)]_vars

\* C7 amended: an entry leaves the tracker only in the return of a sweep that
\* issued a delete for it, or by clear(), which empties the tracker and issues
\* no delete.
C7_LeavesBySweepOrClear ==
    [][\A i \in 1..Len(resources) : Leaves(i) => LeftBySweep(i) \/ LeftByClear]_vars

\* C7 witness: clear() removed entries for which no delete was issued.
C7_Witness == dropped > 0 /\ resources = <<>> /\ calls = <<>>

(***************************************************************************)
(* Properties of the reconciler (checked under ReconcileSpec).             *)
(***************************************************************************)
AfterFind == rpc \in {"found", "deleting", "swept", "done"}
\* Number of volumes among the first i of vols whose id is not a PV name.
OrphanRank(vols, pv_names, i) ==
    Cardinality({j \in 1..i : vols[j].id \notin pv_names})
Attempted(o) == \E k \in 1..Len(delete_calls) : delete_calls[k].volume_id = o.id
Removed(o) ==
    \E k \in 1..Len(delete_calls) :
        delete_calls[k].volume_id = o.id /\ delete_calls[k].result \in {"ok", "not_found"}

\* C8: find_orphans returns exactly the volumes whose id is no PV name, each
\* once and in input order; nothing for an empty list, nothing when every id
\* is a PV name.
C8_FindOrphansIsDifference ==
    AfterFind =>
        /\ Len(orphans) = OrphanRank(agent_volumes, k8s_pvs, Len(agent_volumes))
        /\ \A i \in 1..Len(agent_volumes) :
              agent_volumes[i].id \notin k8s_pvs =>
                  orphans[OrphanRank(agent_volumes, k8s_pvs, i)] = agent_volumes[i]
        /\ agent_volumes = <<>> => orphans = <<>>
        /\ IdsOf(agent_volumes) \subseteq k8s_pvs => orphans = <<>>

\* C8 witness: of two listed volumes the first has a PV and the second has
\* none, and find_orphans has returned.
C8_Witness ==
    /\ rpc = "found" /\ Len(agent_volumes) = 2
    /\ agent_volumes[1].id \in k8s_pvs /\ agent_volumes[2].id \notin k8s_pvs
    /\ orphans = <<agent_volumes[2]>>

\* C9 as stated: main returns 0 when no orphan remains (none found, or each
\* one deleted or already gone) and non-zero when an orphan was found and
\* not deleted.
C9_ZeroIffNoOrphanRemains ==
    rpc = "done" =>
        /\ (\A i \in 1..Len(orphans) : Removed(orphans[i])) => exit_code = 0
        /\ (\E i \in 1..Len(orphans) : ~Removed(orphans[i])) => exit_code # 0

\* C9 amended: main returns 0 when no orphan was found and, with --delete,
\* after a delete was attempted for every orphan, whether or not it succeeded;
\* it returns 1 when orphans were found in report mode, where no delete is
\* attempted.
C9_ExitStatus ==
    rpc = "done" =>
        /\ orphans = <<>> => exit_code = 0
        /\ (orphans # <<>> /\ delete_flag) =>
              exit_code = 0 /\ \A i \in 1..Len(orphans) : Attempted(orphans[i])
        /\ (orphans # <<>> /\ ~delete_flag) => exit_code = 1 /\ delete_calls = <<>>

\* C9 witness: --delete returned 0 although a delete failed and the orphan is
\* still in the backend.
C9_Witness ==
    /\ rpc = "done" /\ delete_flag /\ exit_code = 0
    /\ \E i \in 1..Len(orphans) :
          ~Removed(orphans[i]) /\ orphans[i].id \in IdsOf(backend)

\* A step of the script (not of another actor).
ScriptStep == rpc' # rpc \/ dpos' # dpos

\* C10: delete_orphans with dry_run=True returns len(orphans) without calling
\* delete_volume or opening an agent channel, and no step of a report-mode
\* run changes the backend or issues a delete.
C10_DryRunReadOnly ==
    [][/\ (DryRunArg(delete_flag) /\ rpc = "found" /\ rpc' # rpc /\ orphans # <<>>) =>
            /\ rpc' = "swept"
            /\ deleted' = Len(orphans)
            /\ clients' = clients
       /\ (DryRunArg(delete_flag) /\ ScriptStep) =>
            /\ backend' = backend
            /\ delete_calls' = delete_calls /\ delete_calls = <<>>]_vars

\* C10 witness: a second report-mode run has gone through delete_orphans.
C10_Witness ==
    /\ rpc = "swept" /\ ~delete_flag /\ runs = 1
    /\ Len(orphans) = 2 /\ deleted = 2 /\ delete_calls = <<>>
    /\ clients = 1

\* Number of the first n delete_volume calls of this run that deleted a volume.
RECURSIVE Deletions(_)
Deletions(n) ==
    IF n = 0 THEN 0
    ELSE Deletions(n - 1) + (IF delete_calls[n].result = "ok" THEN 1 ELSE 0)

\* C11: delete_orphans(dry_run=False) issues its delete_volume calls in list
\* order, one per orphan: a not-found result or an exception on one orphan
\* does not stop the loop, so at the return every orphan has had exactly one
\* call, and the count is the number of calls that deleted a volume.
C11_EveryOrphanOnceInOrder ==
    /\ (rpc = "deleting") =>
          /\ Len(delete_calls) = dpos - 1
          /\ \A i \in 1..Len(delete_calls) : delete_calls[i].volume_id = orphans[i].id
          /\ deleted = Deletions(Len(delete_calls))
    /\ (rpc = "swept" /\ ~DryRunArg(delete_flag)) =>
          /\ Len(delete_calls) = Len(orphans)
          /\ \A i \in 1..Len(orphans) : delete_calls[i].volume_id = orphans[i].id
          /\ deleted = Deletions(Len(orphans))

\* C11 witness: the first of two orphans was already gone, the loop went on,
\* the second was deleted, and the count at the return is 1.
C11_Witness ==
    /\ rpc = "swept" /\ delete_flag /\ Len(orphans) = 2
    /\ delete_calls[1].result = "not_found"
    /\ delete_calls[2].result = "ok"
    /\ deleted = 1

(***************************************************************************)
(* Properties of the configuration parser (checked under ConfigSpec).      *)
(***************************************************************************)
\* Nesting depth after the first k lexemes of a text.
Depth(text, k) ==
    Cardinality({i \in 1..k : text[i].t = "{"})
        - Cardinality({i \in 1..k : text[i].t = "}"})
Balanced(text) ==
    /\ \A k \in 1..Len(text) : Depth(text, k) >= 0
    /\ Depth(text, Len(text)) = 0
\* The brace that closes the brace at position o of a balanced text.
MatchingClose(text, o) ==
    CHOOSE j \in (o + 1)..Len(text) :
        /\ Depth(text, j) = Depth(text, o) - 1
        /\ \A k \in (o + 1)..(j - 1) : Depth(text, k) >= Depth(text, o)

\* C12: for a configuration text with balanced braces, the body extracted
\* for every `target "name" {` / `auth-group "name" {` block is exactly the
\* text between the opening brace and its matching closing brace, whatever
\* the nesting depth.
C12_BodyIsMatchedBlock ==
    Balanced(ctld_config) =>
        \A k \in 1..Len(bodies) :
            bodies[k].body =
                SubSeq(ctld_config, bodies[k].start + 1,
                       MatchingClose(ctld_config, bodies[k].start) - 1)

\* C12 witness: a block body of a balanced text that goes on after an inner
\* closing brace.
C12_Witness ==
    /\ Balanced(ctld_config)
    /\ \E k \in 1..Len(bodies) :
          \E i \in 1..(Len(bodies[k].body) - 1) : bodies[k].body[i].t = "}"

\* The fields of the chap-mutual array of a one-auth-group text.
IsMutualText ==
    /\ Len(ctld_config) >= 7
    /\ ctld_config[1] = Header("auth-group", "ag-x")
    /\ ctld_config[3] = Array(<<"chap-", "mutual">>)
MutualFields == SubSeq(ctld_config, 5, Len(ctld_config) - 3)
HasField(f) == \E i \in 1..Len(MutualFields) : MutualFields[i] = f
EachFieldOnce ==
    /\ Len(MutualFields) = 4
    /\ \A f \in ChapFields : HasField(f)

\* C13: list_auth_groups gives the same chap_username, chap_secret,
\* chap_mutual_username and chap_mutual_secret for a chap-mutual block
\* whatever the order of its user, secret, mutual-user and mutual-secret
\* fields: the values it gives for the order user, secret, mutual-user,
\* mutual-secret.
C13_FieldOrderIndependent ==
    (IsMutualText /\ EachFieldOnce /\ Len(auth_groups) = 1) =>
        auth_groups[1] = [name |-> "ag-x",
                          chap_username |-> "u1", chap_secret |-> "s1",
                          chap_mutual_username |-> "u2",
                          chap_mutual_secret |-> "s2"]

\* C14: for a chap-mutual body with a secret and a mutual-secret field,
\* chap_secret is the value of the plain secret field and chap_mutual_secret
\* the value of the mutual-secret field.
C14_SecretsNotSwapped ==
    (/\ IsMutualText /\ Len(auth_groups) = 1
     /\ HasField(Field(<<"secret">>, "s1"))
     /\ HasField(Field(<<"mutual-", "secret">>, "s2"))) =>
        /\ auth_groups[1].chap_secret = "s1"
        /\ auth_groups[1].chap_mutual_secret = "s2"

\* C14 witness: the mutual-secret field comes before the secret field and
\* the auth-group has been parsed.
C14_Witness ==
    /\ IsMutualText /\ Len(auth_groups) = 1
    /\ MutualFields = <<Field(<<"mutual-", "secret">>, "s2"),
                        Field(<<"secret">>, "s1")>>
    /\ auth_groups[1].chap_secret = "s1"

(***************************************************************************)
(* Properties of the size parsers (checked under SizeSpec).                *)
(***************************************************************************)
\* size_str is the digits of a number followed by the suffix.
IsDigitsThen(suffix) ==
    /\ EndsWith(size_str, suffix)
    /\ AllDigits(SubSeq(size_str, 1, Len(size_str) - Len(suffix)))
NumberBefore(suffix) ==
    DigitsValue(SubSeq(size_str, 1, Len(size_str) - Len(suffix)))
OfK8s == size_call.fn = "K8sClient"
OfMonitor == size_call.fn = "StorageMonitor"

\* C15: K8sClient._parse_size multiplies by powers of 1024 for Ki/Mi/Gi/Ti
\* and by powers of 1000 for K/M/G/T ("1Gi" is 1024^3, "1G" is 1000^3,
\* "500Mi" is 500 * 1024^2), returns a bare integer string as that integer,
\* and gives 0 for "" and "-".
C15_K8sBinaryAndDecimal ==
    OfK8s =>
        /\ (\/ size_str \in {Str1Gi, Str1G, Str500Mi, <<>>, <<"-">>}
            \/ IsDigitsThen(<<"K", "i">>) \/ IsDigitsThen(<<"K">>)
            \/ AllDigits(size_str)) => ~size_call.raised
        /\ size_str = Str1Gi => size_call.value = Pow(1024, 3)
        /\ size_str = Str1G => size_call.value = Pow(1000, 3)
        /\ size_str = Str500Mi => size_call.value = 500 * Pow(1024, 2)
        /\ IsDigitsThen(<<"K", "i">>) =>
              size_call.value = NumberBefore(<<"K", "i">>) * 1024
        /\ IsDigitsThen(<<"K">>) =>
              size_call.value = NumberBefore(<<"K">>) * 1000
        /\ AllDigits(size_str) => size_call.value = DigitsValue(size_str)
        /\ size_str \in {<<>>, <<"-">>} => size_call.value = 0

\* C15 witness: K8sClient._parse_size("500Mi") has returned 524288000.
C15_Witness ==
    OfK8s /\ size_str = Str500Mi /\ size_call.value = 524288000

\* C16 as stated: StorageMonitor._parse_size takes Ki/Mi/Gi/Ti as powers of
\* 1024 and K/M/G/T as powers of 1000.
C16_MonitorBinaryAndDecimal ==
    OfMonitor =>
        /\ size_str = Str1Gi => size_call.value = Pow(1024, 3)
        /\ size_str = Str1G => size_call.value = Pow(1000, 3)
        /\ IsDigitsThen(<<"K", "i">>) =>
              size_call.value = NumberBefore(<<"K", "i">>) * 1024
        /\ IsDigitsThen(<<"K">>) =>
              size_call.value = NumberBefore(<<"K">>) * 1000

\* C16 amended: StorageMonitor._parse_size knows the ZFS suffixes K, M, G, T
\* only, in either letter case, each a power of 1024; a number with an
\* `i`-suffixed unit is not recognised and gives 0.
C16_MonitorZfsSuffixes ==
    OfMonitor =>
        /\ ~size_call.raised
        /\ size_str = Str1G => size_call.value = Pow(1024, 3)
        /\ size_str = <<"1", "g">> => size_call.value = Pow(1024, 3)
        /\ size_str = <<"1", "M">> => size_call.value = Pow(1024, 2)
        /\ (IsDigitsThen(<<"K">>) \/ IsDigitsThen(<<"k">>)) =>
              size_call.value = NumberBefore(<<"K">>) * 1024
        /\ (\/ size_str \in {Str1Gi, Str500Mi, <<"1", "M", "i">>, <<"1", "g", "i">>}
            \/ IsDigitsThen(<<"K", "i">>)
            \/ IsDigitsThen(<<"k", "i">>)) => size_call.value = 0

\* C16 witness: StorageMonitor._parse_size("1Gi") has returned 0.
C16_Witness ==
    OfMonitor /\ size_str = Str1Gi /\ size_call.value = 0

\* A number (digits, or digits "." digits) followed by K, M, G or T and an
\* optional i.
IsPlainNumber(n) ==
    \/ AllDigits(n)
    \/ /\ DotAt(n) > 0
       /\ AllDigits(SubSeq(n, 1, DotAt(n) - 1))
       /\ AllDigits(SubSeq(n, DotAt(n) + 1, Len(n)))
IsSuffixedNumber(str) ==
    \E u \in {<<"K">>, <<"M">>, <<"G">>, <<"T">>,
              <<"K", "i">>, <<"M", "i">>, <<"G", "i">>, <<"T", "i">>} :
        /\ EndsWith(str, u)
        /\ IsPlainNumber(SubSeq(str, 1, Len(str) - Len(u)))

\* C17: neither _parse_size fails: an input that is neither a plain
\* non-negative integer nor a number with a K/M/G/T[i] suffix gives 0, the
\* result is never negative and no exception leaves the function.
C17_NeverFailsNeverNegative ==
    size_call.fn # None =>
        /\ ~size_call.raised
        /\ size_call.value >= 0
        /\ (~AllDigits(size_str) /\ ~IsSuffixedNumber(size_str)) =>
              size_call.value = 0

(***************************************************************************)
(* Properties of diff_state (checked under DiffSpec).                      *)
(***************************************************************************)
Elems(list) == {list[i] : i \in 1..Len(list)}
\* One category of the diff against the two key sets it was computed from.
IsSetDifference(category, before_keys, after_keys) ==
    /\ Elems(category.added) = {k \in after_keys : k \notin before_keys}
    /\ Elems(category.removed) = {k \in before_keys : k \notin after_keys}
    /\ Elems(category.added) \cap Elems(category.removed) = {}
    /\ Elems(category.added) \cup Elems(category.removed)
           = (before_keys \cup after_keys) \ (before_keys \cap after_keys)

\* C18: diff_state reports, per kind (datasets and snapshots by name, LUNs
\* by lun_id), added = keys of after not in before and removed = keys of
\* before not in after; the two are disjoint and their union is the
\* symmetric difference of the key sets; diff_state(s, s) is empty in every
\* category with config_changed false.
C18_DiffIsSetDifference ==
    diff_call.done =>
        LET diff == diff_call.result
        IN /\ IsSetDifference(diff.datasets, DatasetKeys(before), DatasetKeys(after))
           /\ IsSetDifference(diff.snapshots, SnapshotKeys(before), SnapshotKeys(after))
           /\ IsSetDifference(diff.luns, LunKeys(before), LunKeys(after))
           /\ before = after => diff = EmptyDiff

\* C18 witness: one dataset went and another came, a LUN came, and the two
\* states have been compared.
C18_Witness ==
    /\ diff_call.done
    /\ diff_call.result.datasets.added = <<<<"tank/csi/v2">>>>
    /\ diff_call.result.datasets.removed = <<<<"tank/csi/v1">>>>
    /\ diff_call.result.luns.added = <<1>>
    /\ diff_call.result.luns.removed = <<>>
    /\ Len(before.luns) = 0

(***************************************************************************)
(* Properties of capture_state (CaptureSpec) and of the inventory builders *)
(* (BuilderSpec).                                                          *)
(***************************************************************************)
\* A sub-capture of the last capture_state call failed.
SubCaptureFailed ==
    \/ \E part \in {"datasets", "snapshots", "luns", "ports"} :
          inv_call.outcomes[part] # "ok"
    \/ inv_call.outcomes.config \in {"not_found", "sudo_failed"}

\* C19: capture_state never returns a partial state: when one of its
\* sub-captures (dataset list, snapshot list, LUN list, port list, config
\* read) fails, the failure reaches the caller.
C19_NoPartialCapture ==
    (inv_call.fn = "capture_state" /\ SubCaptureFailed) => inv_call.raised

\* A line of a listing that is neither blank nor complete and numeric.
MalformedDatasets ==
    \E i \in 1..Len(zfs_out) : zfs_out[i] \notin {<<>>, ZfsLine(V1), ZfsLine(V2)}
MalformedSnapshots ==
    \E i \in 1..Len(snap_out) : snap_out[i] \notin {<<>>, SnapLine(S1), SnapLine(V1)}
MalformedLuns ==
    \/ ~ctl_out.parses
    \/ \E i \in 1..Len(ctl_out.luns) : ctl_out.luns[i] = LunBadId
RanOk(fn, part) == inv_call.fn = fn /\ inv_call.outcomes[part] = "ok"

\* C20: each inventory builder (list_datasets, list_snapshots,
\* list_ctl_luns) whose command ran returns an empty sequence when the raw
\* output is malformed or truncated: it never returns only the well-formed
\* part and never raises.
C20_MalformedGivesEmpty ==
    /\ RanOk("list_datasets", "datasets") =>
          /\ ~inv_call.raised
          /\ MalformedDatasets => inv_call.result = <<>>
    /\ RanOk("list_snapshots", "snapshots") =>
          /\ ~inv_call.raised
          /\ MalformedSnapshots => inv_call.result = <<>>
    /\ RanOk("list_ctl_luns", "luns") =>
          /\ ~inv_call.raised
          /\ MalformedLuns => inv_call.result = <<>>

(***************************************************************************)
(* Properties of cleanup_volume (checked under CleanupVolumeSpec).         *)
(***************************************************************************)
\* The agent answered the DeleteVolume of the last cleanup_volume call.
AgentAnswered(result) == cv_call.done /\ ~cv_call.raised /\ cv_call.result = result

\* C22: cleanup_volume returns True when the agent deleted the volume and
\* when the volume did not exist (NOT_FOUND), and False only when the delete
\* call failed.
C22_TrueUnlessDeleteFailed ==
    /\ AgentAnswered("ok") => cv_call.ret
    /\ AgentAnswered("not_found") => cv_call.ret
    /\ (cv_call.done /\ ~cv_call.raised /\ ~cv_call.ret) => cv_call.result = "error"

(***************************************************************************)
(* Further properties of the tracker (checked under Spec).                 *)
(***************************************************************************)
\* The list a second tracker holds after the same track* calls made with
\* the depends_on values deps.
WithDependsOn(s, deps) == [i \in 1..Len(s) |-> [s[i] EXCEPT !.depends_on = deps[i]]]

\* The entries (registration indices) in the order cleanup_all visits them.
VisitOrder(s) == [i \in 1..Len(s) |-> s[i].idx]

\* C23: the order of cleanup_all's deletes depends only on the resource
\* type and the registration index: a tracker that received the same track*
\* calls with any other depends_on values sorts its entries into the same
\* order, and the deletes follow that order.
C23_OrderIgnoresDependsOn ==
    pc = "sweep" =>
        /\ \A deps \in [1..Len(resources) -> DependsOn] :
              VisitOrder(Sorted(Enumerate(WithDependsOn(resources, deps))))
                  = VisitOrder(sorted_resources)
        /\ \A k \in 1..Len(calls) : calls[k].entry = sorted_resources[k].idx

\* Two entries of one type, only one of them with a depends_on, both deleted.
C23_Witness ==
    /\ pc = "sweep"
    /\ Len(resources) = 2
    /\ Len(calls) = 2
    /\ resources[1].resource_type = resources[2].resource_type
    /\ resources[1].depends_on = None
    /\ resources[2].depends_on # None

(***************************************************************************)
(* Further properties of the configuration parser (checked under           *)
(* ConfigSpec).                                                            *)
(***************************************************************************)
\* The headers of a keyword that no block encloses.
TopLevelHeaders(text, keyword) ==
    {i \in 1..Len(text) : IsHeaderAt(text, keyword, i) /\ Depth(text, i - 1) = 0}
HasKeyword(text, keyword) == \E i \in 1..Len(text) : IsHeaderAt(text, keyword, i)
\* The header of the k-th block of the last list_* call.
HeaderOf(k) == bodies[k].start - 1

\* C24: for a balanced text list_iscsi_targets and list_auth_groups visit the
\* top-level `keyword "name" {` blocks only, each once and in text order: no
\* block they build an entry from lies inside another block's body; a text
\* without the keyword gives an empty list.
C24_OnlyTopLevelBlocks ==
    /\ Balanced(ctld_config) =>
          /\ \A k \in 1..Len(bodies) : Depth(ctld_config, HeaderOf(k) - 1) = 0
          /\ \A k \in 1..(Len(bodies) - 1) : HeaderOf(k) < HeaderOf(k + 1)
          /\ bodies # <<>> =>
                TopLevelHeaders(ctld_config, ctld_config[HeaderOf(1)].a[1])
                    \subseteq {HeaderOf(k) : k \in 1..Len(bodies)}
    /\ ~HasKeyword(ctld_config, "auth-group") => auth_groups = <<>>
    /\ ~HasKeyword(ctld_config, "target") => iscsi_targets = <<>>

(***************************************************************************)
(* Properties of ctl-config-helper.py (checked under HelperSpec, C25 under *)
(* SyncSpec).                                                              *)
(***************************************************************************)
\* The user-managed part of a config: the entries without a CSI prefix.
UserEntries(config) ==
    [target |-> Restrict(config.target.entries,
                         {n \in DOMAIN config.target.entries : ~is_csi_target(n)}),
     controller |-> Restrict(config.controller.entries,
                             {n \in DOMAIN config.controller.entries :
                                 ~is_csi_target(n)})]

\* C21: whatever commands have run, the targets and controllers without a
\* CSI prefix are the ones the file started with: none changed, none
\* deleted.
C21_UserEntriesPreserved ==
    LET old == UserEntries(cfg_file0.config)
        now == UserEntries(cfg_file.config)
    IN /\ \A n \in DOMAIN old.target :
             n \in DOMAIN now.target /\ now.target[n] = old.target[n]
       /\ \A n \in DOMAIN old.controller :
             n \in DOMAIN now.controller /\ now.controller[n] = old.controller[n]

\* The CSI-prefixed names of a config, targets and controllers.
CsiEntries(config) ==
    {n \in DOMAIN config.target.entries \cup DOMAIN config.controller.entries :
        is_csi_target(n)}
ExportNames(csi_exports) == {csi_exports[i].name : i \in 1..Len(csi_exports)}
SyncApplied(p) ==
    /\ helper[p].args.command = "sync"
    /\ helper[p].loaded
    /\ helper[p].args.json_ok
    /\ helper[p].pc \in {"saving", "finally"}
SyncSaved(p) == SyncApplied(p) /\ helper[p].pc = "finally" /\ helper[p].status = 0

\* C25: after sync_csi_targets(config, exports) with CSI-prefixed export
\* names the CSI-prefixed targets and controllers are exactly the exported
\* names, the same sync applied again changes nothing, and the file saved
\* by the sync command holds that config.
C25_SyncExactAndIdempotent ==
    \A p \in Procs :
        /\ SyncApplied(p) =>
              /\ CsiEntries(helper[p].config) = ExportNames(helper[p].args.exports)
              /\ sync_csi_targets(helper[p].config, helper[p].args.exports)
                     = helper[p].config
              /\ UserEntries(helper[p].config)
                     = UserEntries(load_config(helper[p].seen))
        /\ SyncSaved(p) => cfg_file = [exists |-> TRUE, config |-> helper[p].config]

\* C25 witness: a sync was saved that dropped a CSI entry of the old file
\* and added an exported one.
C25_Witness ==
    /\ SyncSaved(1)
    /\ CsiIqn \in DOMAIN helper[1].seen.config.target.entries
    /\ CsiIqn \notin ExportNames(helper[1].args.exports)
    /\ CsiNqn \notin CsiEntries(helper[1].seen.config)
    /\ CsiNqn \in CsiEntries(cfg_file.config)

\* The part of main() that runs with the lock: from lock.acquire() to
\* lock.release().
InCritical(p) == helper[p].pc \in {"locked", "saving", "finally"}
IsAdd(a) == a.command \in {"add-iscsi", "add-nvmeof"}
Added(a, config) ==
    IF a.command = "add-iscsi" THEN a.name \in DOMAIN config.target.entries
                               ELSE a.name \in DOMAIN config.controller.entries
BothAdded ==
    /\ invocations = 2
    /\ \A p \in Procs : /\ helper[p].pc = "exited" /\ helper[p].status = 0
                        /\ IsAdd(helper[p].args)
    /\ helper[1].args.name # helper[2].args.name

\* C29: two invocations never are between load_config and save_config at
\* the same time: a process holds the lock exactly from lock.acquire() to
\* the release in `finally`, whatever way it leaves, and after two add
\* commands for different names both entries are in the file.
C29_LockSerialisesInvocations ==
    /\ \A p, q \in Procs : (InCritical(p) /\ InCritical(q)) => p = q
    /\ \A p \in Procs : InCritical(p) <=> p \in lock_holders
    /\ \A p \in Procs : InCritical(p) /\ helper[p].loaded => helper[p].seen = cfg_file
                                                              \/ helper[p].wrote
    /\ BothAdded => \A p \in Procs : Added(helper[p].args, cfg_file.config)

\* C29 witness: process 2 has saved its entry and holds the lock in
\* `finally`, process 1, started before, waits in lock.acquire(); and two
\* adds that ran at the same time have both left their entries.
C29_Waiting ==
    /\ helper[2].pc = "finally" /\ helper[2].status = 0 /\ IsAdd(helper[2].args)
    /\ helper[1].pc = "parsed" /\ IsAdd(helper[1].args)
    /\ helper[1].args.name # helper[2].args.name
C29_Witness ==
    \/ C29_Waiting
    \/ BothAdded /\ \A p \in Procs : /\ Added(helper[p].args, cfg_file.config)
                                     /\ ~Added(helper[p].args, cfg_file0.config)

\* A remove command that has loaded the file and not yet released the lock.
RemoveRan(p) ==
    /\ helper[p].args.command = "remove"
    /\ helper[p].loaded
    /\ helper[p].pc = "finally"
WasPresent(p) ==
    LET old == load_config(helper[p].seen)
    IN \/ helper[p].args.name \in DOMAIN old.target.entries
       \/ helper[p].args.name \in DOMAIN old.controller.entries
WithoutName(section, name) ==
    Section(section.present,
            Restrict(section.entries, DOMAIN section.entries \ {name}))

C30_WitnessNotFound ==
    /\ RemoveRan(1) /\ ~WasPresent(1) /\ helper[1].status = 1
    /\ cfg_file.exists

\* Nesting depth that leaves out the braces of quoted values.
BlockDepth(text, k) ==
    Cardinality({i \in 1..k : text[i].t = "{" /\ text[i].b # "quoted"})
        - Cardinality({i \in 1..k : text[i].t = "}" /\ text[i].b # "quoted"})
\* The brace that closes the block opened at position o.
ClosingBrace(text, o) ==
    CHOOSE j \in (o + 1)..Len(text) :
        /\ text[j].t = "}" /\ text[j].b # "quoted"
        /\ BlockDepth(text, j) = BlockDepth(text, o) - 1
        /\ \A k \in (o + 1)..(j - 1) : BlockDepth(text, k) >= BlockDepth(text, o)
HasQuotedBrace(text) == \E i \in 1..Len(text) : text[i].b = "quoted"

\* C26: in a text whose blocks are closed, a brace inside a double-quoted
\* value does not move the end of a block's body: the body extracted for
\* each block ends at the brace that closes the block.
C26_QuotedBracesIgnored ==
    HasQuotedBrace(ctld_config) =>
        \A k \in 1..Len(bodies) :
            bodies[k].body =
                SubSeq(ctld_config, bodies[k].start + 1,
                       ClosingBrace(ctld_config, bodies[k].start) - 1)

(***************************************************************************)
(* Properties of the reconciler next to a provisioner (checked under       *)
(* RaceSpec).                                                              *)
(***************************************************************************)
\* The step in which delete_orphans removes a volume from the agent.
DeletesVolume(volume_id) ==
    /\ rpc = "deleting"
    /\ dpos <= Len(orphans)
    /\ orphans[dpos].id = volume_id
    /\ dpos' = dpos + 1
    /\ volume_id \in IdsOf(backend)
    /\ volume_id \notin IdsOf(backend')

\* C28: reconcile --delete never deletes an agent volume that has a
\* PersistentVolume at the moment of the delete, a volume provisioned
\* between the fetch of the PVs and the fetch of the agent volumes included.
C28_NeverDeletesVolumeWithPv ==
    [][\A volume_id \in VolIds : DeletesVolume(volume_id) => volume_id \notin pvs]_vars

(***************************************************************************)
(* Properties of the tracker used by two threads (checked under            *)
(* ConcurrentSpec).                                                        *)
(***************************************************************************)
\* The sweep in progress has issued a delete for entry i of the list.
DeleteIssued(i) == \E k \in 1..Len(calls) : calls[k].entry = i - 1
\* Entry i is in the tracker before the step and not after it.
LeavesTracker(i) ==
    /\ i \in 1..Len(resources)
    /\ i > Len(resources') \/ resources'[i] # resources[i]

\* C27: with track* calls interleaved with a running cleanup_all no
\* resource is lost: an entry leaves the tracker during a sweep only after
\* the sweep has issued a delete for it.
C27_NoResourceLost ==
    [][\A i \in 1..MaxTracked :
          (pc = "sweep" /\ LeavesTracker(i)) => DeleteIssued(i)]_vars

=============================================================================
